---- MODULE Spec2Model ----
(***************************************************************************)
(* A model of the nionswift document model: the membership list of data    *)
(* items, the dependency maps between them, the transaction and live       *)
(* counters that cascade along the dependencies, the computation queue     *)
(* with its worker, and the migration pipeline that brings stored records  *)
(* to the writer version.                                                  *)
(*                                                                         *)
(* Every data item of the model has exactly one buffered data source       *)
(* (maybe_data_source), so a data source is named by its data item.        *)
(***************************************************************************)
EXTENDS Integers, Sequences, FiniteSets, TLC

\* ------------------------------------------------------------------ universe

None == "None"

\* the data items that exist as objects (inside or outside the document)
DataItems == {"A", "B", "C", "D"}

\* the Computation objects that exist
Computations == {"c1", "c2", "c3"}

\* expression texts given to parse_expression: two that parse and one that
\* names an unknown function
Expressions == {"-a", "-a+1", "xyz(a)"}

\* the keys of data item references (hardware channels), and a key that is
\* not in a dict
ReferenceKeys == {"k1", "k2"}
NoKey == "no key"

\* ------------------------------------------------------------------ bounds

\* main-thread calls in one behaviour
MaxOps == 4
MaxOpsCascade == 6
MaxOpsQueue == 6
MaxOpsInsert == 4
MaxOpsTransaction == 4
MaxOpsRace == 5
MaxOpsEdges == 6
MaxOpsClose == 2
MaxOpsParse == 4

\* begin and end calls one thread makes
MaxThreadCalls == 4

\* properties files found in storage
MaxRecords == 2

\* variables one computation holds
MaxVariables == 2

\* begin calls outstanding at once, per counter
MaxBegins == 2

\* ------------------------------------------------------------------ state

VARIABLES
    data_items,                 \* DocumentModel.__data_items, a list
    storage,                    \* data items that have a persistent storage record
    item_listeners,             \* uuids holding the five per-item listeners
    data_item_manager,          \* data items whose manager is the document
    closed,                     \* data items that have been closed
    buffered_data_source_set,   \* DocumentModel.__buffered_data_source_set
    computation,                \* data source -> its computation or None
    data,                       \* data source -> its data (one number stands for the array)
    variables,                  \* computation -> list of data items its variables specify
    data_node,                  \* computation -> parsed expression or None
    needs_update,               \* computation -> flag
    error_text,                 \* computation -> None or a message
    original_expression,        \* computation -> the text last given to parse_expression
    bound_items,                \* computation -> "unbound", or what leaf a is bound to
    bind_order,                 \* the bound computations, in the order they were bound
    dependent_data_items,       \* source -> list of dependents
    source_data_items,          \* dependent -> list of sources
    computation_dependency_data_items,  \* data item -> set of sources of its computation
    transactions,               \* data item -> transaction count
    live_data_items,            \* data item -> live count
    in_transaction_state,       \* data items inside _enter/_exit_transaction_state
    is_live,                    \* data items inside _enter/_exit_live_state
    computation_pending_queue,  \* list of ComputationQueueItem
    computation_active_items,   \* list of ComputationQueueItem
    computation_changed_listeners,  \* data source -> computation listened to, or None
    recompute_tasks,            \* __recompute tasks queued on the computation pool
    worker,                     \* the computation pool's single thread inside __recompute
    raised,                     \* how the last main-thread call ended
    last_call,                  \* the last main-thread call and its arguments
    events,                     \* events fired, hooks invoked and steps taken by the last call, in order
    stores,                     \* every write a recompute made into a live data source
    ops,                        \* main-thread calls made so far
    user_begins,                \* begin calls of the caller not yet matched by an end
    close_pc,                   \* how far DocumentModel.close has come
    data_item_references,       \* key -> the data item of its DataItemReference, None, or no reference
    data_item_references_dict,  \* the persistent property data_item_references: key -> uuid, or no key
    reader_info_list,           \* the records being migrated: properties and changed_ref
    migrate_pc,                 \* the next step __migrate_to_latest calls
    migrate_log,                \* history, per record: its version as found and the
                                \* output versions of the steps applied to it
    read_result,                \* the data items read_data_items returned, as their properties
    persistent_storage_handlers, \* the handlers found, each with the properties it stores
    write_properties_calls,     \* handlers whose write_properties was called during the load
    built_node,                 \* an expression tree as its constructors built it
    node_dict,                  \* what built_node.write() gave
    read_node,                  \* what DataNode.factory(node_dict) gave
    rewritten_dict,             \* what read_node.write() gave
    node_pc,                    \* how far the write, factory, write sequence has come
    reconstructed,              \* what built_node.reconstruct(variable_map) gave
    reparsed,                   \* the expression the reconstructed text parses to
    binder,                     \* a Computation's bound items and listeners, and every bound item made
    threads                     \* thread -> the begin and end calls it is inside, as frames

vars == << data_items, storage, item_listeners, data_item_manager, closed,
           buffered_data_source_set, computation, data, variables, data_node,
           needs_update, error_text, original_expression, bound_items, bind_order, dependent_data_items,
           source_data_items, computation_dependency_data_items, transactions,
           live_data_items, in_transaction_state, is_live,
           computation_pending_queue, computation_active_items,
           computation_changed_listeners, recompute_tasks, worker, raised,
           last_call, events, stores, ops, user_begins, close_pc,
           data_item_references, data_item_references_dict,
           reader_info_list, migrate_pc, migrate_log, read_result,
           persistent_storage_handlers, write_properties_calls,
           built_node, node_dict, read_node, rewritten_dict, node_pc,
           reconstructed, reparsed, binder, threads >>

\* the variables of the document model as one record, so that a method that
\* calls other methods is a function from record to record
docvars == << data_items, storage, item_listeners, data_item_manager, closed,
              buffered_data_source_set, computation, data, variables, data_node,
              needs_update, error_text, original_expression, bound_items, bind_order, dependent_data_items,
              source_data_items, computation_dependency_data_items, transactions,
              live_data_items, in_transaction_state, is_live,
              computation_pending_queue, computation_active_items,
              computation_changed_listeners, recompute_tasks, worker, raised,
              last_call, events, stores, ops, user_begins, close_pc,
              data_item_references, data_item_references_dict >>

migvars == << reader_info_list, migrate_pc, migrate_log, read_result,
             persistent_storage_handlers, write_properties_calls >>

nodevars == << built_node, node_dict, read_node, rewritten_dict, node_pc,
              reconstructed, reparsed, binder >>

St == [ data_items |-> data_items, storage |-> storage,
        item_listeners |-> item_listeners,
        data_item_manager |-> data_item_manager, closed |-> closed,
        buffered_data_source_set |-> buffered_data_source_set,
        computation |-> computation, data |-> data, variables |-> variables,
        data_node |-> data_node, needs_update |-> needs_update,
        error_text |-> error_text, original_expression |-> original_expression,
        bound_items |-> bound_items,
        bind_order |-> bind_order,
        dependent_data_items |-> dependent_data_items,
        source_data_items |-> source_data_items,
        computation_dependency_data_items |-> computation_dependency_data_items,
        transactions |-> transactions, live_data_items |-> live_data_items,
        in_transaction_state |-> in_transaction_state, is_live |-> is_live,
        computation_pending_queue |-> computation_pending_queue,
        computation_active_items |-> computation_active_items,
        computation_changed_listeners |-> computation_changed_listeners,
        recompute_tasks |-> recompute_tasks, worker |-> worker,
        raised |-> raised, events |-> events, stores |-> stores,
        data_item_references |-> data_item_references,
        data_item_references_dict |-> data_item_references_dict ]

Commit(s) ==
    /\ data_items' = s.data_items
    /\ storage' = s.storage
    /\ item_listeners' = s.item_listeners
    /\ data_item_manager' = s.data_item_manager
    /\ closed' = s.closed
    /\ buffered_data_source_set' = s.buffered_data_source_set
    /\ computation' = s.computation
    /\ data' = s.data
    /\ variables' = s.variables
    /\ data_node' = s.data_node
    /\ needs_update' = s.needs_update
    /\ error_text' = s.error_text
    /\ original_expression' = s.original_expression
    /\ bound_items' = s.bound_items
    /\ bind_order' = s.bind_order
    /\ dependent_data_items' = s.dependent_data_items
    /\ source_data_items' = s.source_data_items
    /\ computation_dependency_data_items' = s.computation_dependency_data_items
    /\ transactions' = s.transactions
    /\ live_data_items' = s.live_data_items
    /\ in_transaction_state' = s.in_transaction_state
    /\ is_live' = s.is_live
    /\ computation_pending_queue' = s.computation_pending_queue
    /\ computation_active_items' = s.computation_active_items
    /\ computation_changed_listeners' = s.computation_changed_listeners
    /\ recompute_tasks' = s.recompute_tasks
    /\ worker' = s.worker
    /\ raised' = s.raised
    /\ events' = s.events
    /\ stores' = s.stores
    /\ data_item_references' = s.data_item_references
    /\ data_item_references_dict' = s.data_item_references_dict

\* ------------------------------------------------------------------ lists

Range(seq) == { seq[i] : i \in 1..Len(seq) }

\* list.insert(before_index, x) for 0 <= before_index <= len
ListInsert(seq, before_index, x) ==
    SubSeq(seq, 1, before_index) \o << x >> \o SubSeq(seq, before_index + 1, Len(seq))

\* list.index(x): the 0-based position of the first x
ListIndex(seq, x) == (CHOOSE i \in 1..Len(seq) : seq[i] = x /\ \A j \in 1..(i - 1) : seq[j] # x) - 1

\* del list[index], 0-based
ListDelete(seq, index) == SubSeq(seq, 1, index) \o SubSeq(seq, index + 2, Len(seq))

\* list.remove(x): drops the first x (the callers below only remove what is there)
\* list.remove(x) for a list that holds x
ListRemove(seq, x) == ListDelete(seq, ListIndex(seq, x))

\* the items of a set as a list in a fixed order, for a loop over a set
ItemOrder == << "A", "B", "C", "D" >>

InSet(S, x) == x \in S

SetToSeq(S) == SelectSeq(ItemOrder, LAMBDA x : InSet(S, x))

Fire(s, e) == [s EXCEPT !.events = Append(@, e)]

Raise(s, e) == [s EXCEPT !.raised = e]

\* ------------------------------------------------------------------ transactions and live state

get_source_data_items(s, data_item) == s.source_data_items[data_item]

get_dependent_data_items(s, data_item) == s.dependent_data_items[data_item]

\* DataItem._enter_transaction_state / _exit_transaction_state and the live pair:
\* the hooks set and clear the state that in_transaction_state / is_live report
enter_transaction_state(s, data_item) ==
    Fire([s EXCEPT !.in_transaction_state = @ \cup {data_item}],
         << "_enter_transaction_state", data_item >>)

exit_transaction_state(s, data_item) ==
    Fire([s EXCEPT !.in_transaction_state = @ \ {data_item}],
         << "_exit_transaction_state", data_item >>)

enter_live_state(s, data_item) ==
    Fire([s EXCEPT !.is_live = @ \cup {data_item}], << "_enter_live_state", data_item >>)

exit_live_state(s, data_item) ==
    Fire([s EXCEPT !.is_live = @ \ {data_item}], << "_exit_live_state", data_item >>)

\* begin_data_item_transaction without the loop over the dependents
begin_data_item_transaction_alone(s, data_item) ==
    IF s.transactions[data_item] = 0
    THEN enter_transaction_state([s EXCEPT !.transactions[data_item] = 1], data_item)
    ELSE [s EXCEPT !.transactions[data_item] = @ + 1]

RECURSIVE begin_data_item_transaction(_, _), BeginTransactionEach(_, _, _)
begin_data_item_transaction(s, data_item) ==
    IF s.raised # None THEN s
    ELSE LET old_transaction_count == s.transactions[data_item]
             s1 == [s EXCEPT !.transactions[data_item] = old_transaction_count + 1]
         IN IF old_transaction_count = 0
            THEN LET s2 == enter_transaction_state(s1, data_item)
                 IN BeginTransactionEach(s2, get_dependent_data_items(s2, data_item), 1)
            ELSE s1

BeginTransactionEach(s, dependents, i) ==
    IF i > Len(dependents) \/ s.raised # None THEN s
    ELSE BeginTransactionEach(begin_data_item_transaction(s, dependents[i]), dependents, i + 1)

RECURSIVE end_data_item_transaction(_, _), EndTransactionEach(_, _, _)
\* end_data_item_transaction that leaves the transaction state first and ends
\* the transactions of the dependents after it
end_data_item_transaction_exits_first(s, data_item) ==
    IF s.raised # None THEN s
    ELSE LET transaction_count == s.transactions[data_item] - 1
         IN IF transaction_count < 0 THEN Raise(s, "AssertionError")
            ELSE LET s1 == [s EXCEPT !.transactions[data_item] = transaction_count]
                 IN IF transaction_count = 0
                    THEN LET s2 == exit_transaction_state(s1, data_item)
                         IN EndTransactionEach(s2, get_dependent_data_items(s2, data_item), 1)
                    ELSE s1

end_data_item_transaction(s, data_item) ==
    IF s.raised # None THEN s
    ELSE LET transaction_count == s.transactions[data_item] - 1
         IN IF transaction_count < 0 THEN Raise(s, "AssertionError")
            ELSE LET s1 == [s EXCEPT !.transactions[data_item] = transaction_count]
                 IN IF transaction_count = 0
                    THEN LET s2 == EndTransactionEach(s1, get_dependent_data_items(s1, data_item), 1)
                         IN IF s2.raised # None THEN s2
                            ELSE exit_transaction_state(s2, data_item)
                    ELSE s1

EndTransactionEach(s, dependents, i) ==
    IF i > Len(dependents) \/ s.raised # None THEN s
    ELSE EndTransactionEach(end_data_item_transaction(s, dependents[i]), dependents, i + 1)

RECURSIVE begin_data_item_live(_, _), BeginLiveEach(_, _, _)
begin_data_item_live(s, data_item) ==
    IF s.raised # None THEN s
    ELSE LET old_live_count == s.live_data_items[data_item]
             s1 == [s EXCEPT !.live_data_items[data_item] = old_live_count + 1]
         IN IF old_live_count = 0
            THEN LET s2 == enter_live_state(s1, data_item)
                 IN BeginLiveEach(s2, get_dependent_data_items(s2, data_item), 1)
            ELSE s1

BeginLiveEach(s, dependents, i) ==
    IF i > Len(dependents) \/ s.raised # None THEN s
    ELSE BeginLiveEach(begin_data_item_live(s, dependents[i]), dependents, i + 1)

\* end_data_item_live that leaves the live state whatever the count
end_data_item_live_uncounted(s, data_item) ==
    IF s.live_data_items[data_item] - 1 < 0 THEN Raise(s, "AssertionError")
    ELSE exit_live_state([s EXCEPT !.live_data_items[data_item] = @ - 1], data_item)

RECURSIVE end_data_item_live(_, _), EndLiveEach(_, _, _)
end_data_item_live(s, data_item) ==
    IF s.raised # None THEN s
    ELSE LET live_count == s.live_data_items[data_item] - 1
         IN IF live_count < 0 THEN Raise(s, "AssertionError")
            ELSE LET s1 == [s EXCEPT !.live_data_items[data_item] = live_count]
                 IN IF live_count = 0
                    THEN LET s2 == exit_live_state(s1, data_item)
                         IN EndLiveEach(s2, get_dependent_data_items(s2, data_item), 1)
                    ELSE s1

EndLiveEach(s, dependents, i) ==
    IF i > Len(dependents) \/ s.raised # None THEN s
    ELSE EndLiveEach(end_data_item_live(s, dependents[i]), dependents, i + 1)

\* ------------------------------------------------------------------ dependencies

\* __remove_dependency; list.remove of a value that is not in the list raises
remove_dependency(s, source_data_item, target_data_item) ==
    IF s.raised # None THEN s
    ELSE IF target_data_item \notin Range(s.dependent_data_items[source_data_item])
         THEN Raise(s, "ValueError")
    ELSE IF source_data_item \notin Range(s.source_data_items[target_data_item])
         THEN Raise([s EXCEPT !.dependent_data_items[source_data_item] =
                                  ListRemove(@, target_data_item)], "ValueError")
    ELSE LET s1 == [s EXCEPT
                     !.dependent_data_items[source_data_item] = ListRemove(@, target_data_item),
                     !.source_data_items[target_data_item] = ListRemove(@, source_data_item)]
             s2 == IF source_data_item \in s1.in_transaction_state
                   THEN end_data_item_transaction(s1, target_data_item) ELSE s1
         IN IF source_data_item \in s2.is_live
            THEN end_data_item_live(s2, target_data_item) ELSE s2

\* __add_dependency that appends to the list of dependents only
add_dependency_one_list(s, source_data_item, target_data_item) ==
    IF s.raised # None THEN s
    ELSE [s EXCEPT !.dependent_data_items[source_data_item] = Append(@, target_data_item)]

\* __add_dependency
add_dependency(s, source_data_item, target_data_item) ==
    IF s.raised # None THEN s
    ELSE LET s1 == [s EXCEPT
                     !.dependent_data_items[source_data_item] = Append(@, target_data_item),
                     !.source_data_items[target_data_item] = Append(@, source_data_item)]
             s2 == IF source_data_item \in s1.in_transaction_state
                   THEN begin_data_item_transaction(s1, target_data_item) ELSE s1
         IN IF source_data_item \in s2.is_live
            THEN begin_data_item_live(s2, target_data_item) ELSE s2

\* resolve_object_specifier for a data item specifier: the member with that
\* uuid (get_data_item_by_uuid walks the membership list), or None
resolve_object_specifier(s, uuid) == IF uuid \in Range(s.data_items) THEN uuid ELSE None

RECURSIVE RemoveDependencyEach(_, _, _, _)
RemoveDependencyEach(s, sources, i, data_item) ==
    IF i > Len(sources) \/ s.raised # None THEN s
    ELSE RemoveDependencyEach(remove_dependency(s, sources[i], data_item), sources, i + 1, data_item)

RECURSIVE AddDependencyEach(_, _, _, _)
AddDependencyEach(s, specifiers, i, data_item) ==
    IF i > Len(specifiers) \/ s.raised # None THEN s
    ELSE LET source_data_item == resolve_object_specifier(s, specifiers[i])
         IN IF source_data_item # None
               /\ source_data_item \notin s.computation_dependency_data_items[data_item]
            THEN AddDependencyEach(
                    add_dependency(
                        [s EXCEPT !.computation_dependency_data_items[data_item] = @ \cup {source_data_item}],
                        source_data_item, data_item),
                    specifiers, i + 1, data_item)
            ELSE AddDependencyEach(s, specifiers, i + 1, data_item)

\* the handler that adds the new sources and leaves the old ones recorded
handle_computation_changed_or_mutated_adds(s, data_item, comp) ==
    IF s.raised # None \/ comp = None THEN s
    ELSE AddDependencyEach(s, s.variables[comp], 1, data_item)

\* __handle_computation_changed_or_mutated(data_item, data_source, computation)
handle_computation_changed_or_mutated(s, data_item, comp) ==
    IF s.raised # None THEN s
    ELSE LET s1 == RemoveDependencyEach(
                      s, SetToSeq(s.computation_dependency_data_items[data_item]), 1, data_item)
         IN IF s1.raised # None THEN s1
            ELSE LET s2 == [s1 EXCEPT !.computation_dependency_data_items[data_item] = {}]
                 IN IF comp # None
                    THEN AddDependencyEach(s2, s2.variables[comp], 1, data_item)
                    ELSE s2

\* ------------------------------------------------------------------ computation queue

\* ComputationQueueItem; pending_at_remove is a history field: the entry was in
\* the pending queue when remove_data_item ran for its data item
ComputationQueueItem(data_item, buffered_data_source, comp) ==
    [ data_item |-> data_item, buffered_data_source |-> buffered_data_source,
      computation |-> comp, valid |-> TRUE, pending_at_remove |-> FALSE ]

\* the positions of the entries of a list that are for a data source
EntriesFor(queue, buffered_data_source) ==
    { i \in 1..Len(queue) : queue[i].buffered_data_source = buffered_data_source }

First(S) == CHOOSE i \in S : \A j \in S : i <= j

\* the dictionary __computation_changed_listeners: data source uuid -> the
\* computation whose needs_update_event the listener is on
ListenerFor(s, buffered_data_source) ==
    LET found == { i \in 1..Len(s.computation_changed_listeners) :
                     s.computation_changed_listeners[i][1] = buffered_data_source }
    IN IF found = {} THEN None ELSE s.computation_changed_listeners[First(found)][2]

KeepOthers(listener, buffered_data_source) == listener[1] # buffered_data_source

\* the closure without the search of the pending queue
computation_needs_update_appends(s, data_item, buffered_data_source, comp) ==
    Fire([s EXCEPT
            !.computation_pending_queue =
                Append(@, ComputationQueueItem(data_item, buffered_data_source, comp)),
            !.recompute_tasks = @ + 1],
         << "dispatch_task2", buffered_data_source >>)

\* computation_needs_update that takes the pending entry out and appends a
\* new one in its place
computation_needs_update_requeues(s, data_item, buffered_data_source, comp) ==
    LET found == EntriesFor(s.computation_pending_queue, buffered_data_source)
        kept == IF found = {} THEN s.computation_pending_queue
                ELSE ListDelete(s.computation_pending_queue, First(found) - 1)
    IN Fire([s EXCEPT
               !.computation_pending_queue =
                   Append(kept, ComputationQueueItem(data_item, buffered_data_source, comp)),
               !.recompute_tasks = IF found = {} THEN @ + 1 ELSE @],
            << "dispatch_task2", buffered_data_source >>)

\* the closure computation_needs_update of computation_changed
computation_needs_update(s, data_item, buffered_data_source, comp) ==
    LET found == EntriesFor(s.computation_pending_queue, buffered_data_source)
    IN IF found # {}
       THEN [s EXCEPT !.computation_pending_queue[First(found)].computation = comp]
       ELSE Fire([s EXCEPT
                    !.computation_pending_queue =
                        Append(@, ComputationQueueItem(data_item, buffered_data_source, comp)),
                    !.recompute_tasks = @ + 1],
                 << "dispatch_task2", buffered_data_source >>)

\* the entry the worker holds is the object in the active list
MarkWorker(w, buffered_data_source) ==
    IF w.item.buffered_data_source = buffered_data_source
    THEN [w EXCEPT !.item.valid = FALSE] ELSE w

\* computation_changed(data_item, buffered_data_source, None): the first entry
\* of pending + active for the data source becomes invalid
invalidate_first(s, buffered_data_source) ==
    LET pending == EntriesFor(s.computation_pending_queue, buffered_data_source)
        active == EntriesFor(s.computation_active_items, buffered_data_source)
    IN IF pending # {}
       THEN [s EXCEPT !.computation_pending_queue[First(pending)].valid = FALSE]
       ELSE IF active # {}
            THEN [s EXCEPT !.computation_active_items[First(active)].valid = FALSE,
                           !.worker = MarkWorker(@, buffered_data_source)]
            ELSE s

computation_changed(s, data_item, buffered_data_source, comp) ==
    LET s1 == [s EXCEPT !.computation_changed_listeners =
                  SelectSeq(@, LAMBDA l : KeepOthers(l, buffered_data_source))]
    IN IF comp # None
       THEN computation_needs_update(
                [s1 EXCEPT !.computation_changed_listeners =
                    Append(@, << buffered_data_source, comp >>)],
                data_item, buffered_data_source, comp)
       ELSE invalidate_first(s1, buffered_data_source)

\* needs_update_event.fire(): the listeners run in the order they registered
RECURSIVE FireNeedsUpdate(_, _, _, _)
FireNeedsUpdate(s, listeners, i, comp) ==
    IF i > Len(listeners) THEN s
    ELSE IF listeners[i][2] = comp
         THEN FireNeedsUpdate(
                 computation_needs_update(s, listeners[i][1], listeners[i][1], comp),
                 listeners, i + 1, comp)
         ELSE FireNeedsUpdate(s, listeners, i + 1, comp)

needs_update_event(s, comp) == FireNeedsUpdate(s, s.computation_changed_listeners, 1, comp)

\* ------------------------------------------------------------------ Computation

\* the data source that owns the computation, or None
OwnerOf(s, comp) ==
    IF \E d \in DataItems : s.computation[d] = comp
    THEN CHOOSE d \in DataItems : s.computation[d] = comp
    ELSE None

\* computation_mutated_event.fire(): the owning data source passes it on as the
\* data item's computation_changed_or_mutated_event, which the document listens
\* to for the data items it holds listeners for
computation_mutated_event(s, comp) ==
    LET owner == OwnerOf(s, comp)
    IN IF owner # None /\ owner \in s.item_listeners
       THEN handle_computation_changed_or_mutated(s, owner, comp)
       ELSE s

\* Computation.bind: nothing when bound already or when there is no data node;
\* leaf a is bound to a BoundVariable whose object is what the variable's
\* specifier resolves to now
bind(s, comp) ==
    IF s.bound_items[comp] = "unbound" /\ s.data_node[comp] # None
    THEN [s EXCEPT !.bound_items[comp] = resolve_object_specifier(s, s.variables[comp][1]),
                   !.bind_order = Append(@, comp)]
    ELSE s

IsNot(x, y) == x # y

unbind(s, comp) ==
    [s EXCEPT !.bound_items[comp] = "unbound",
              !.bind_order = SelectSeq(@, LAMBDA c : IsNot(c, comp))]

\* the module function parse_expression: the tree, or None and an error text;
\* a is the name of the first variable
ParseExpression(expression, computation_variables) ==
    IF expression = "xyz(a)" THEN << None, "name 'xyz' is not defined" >>
    ELSE IF Len(computation_variables) = 0 THEN << None, "name 'a' is not defined" >>
    ELSE << expression, None >>

\* parse_expression that keeps the error text and the original expression
\* of the parse before
parse_expression_keeps(s, comp, expression) ==
    LET s1 == unbind(s, comp)
        parsed == ParseExpression(expression, s1.variables[comp])
        s2 == [s1 EXCEPT !.data_node[comp] = parsed[1]]
        s3 == IF parsed[1] # None THEN bind(s2, comp) ELSE s2
    IN computation_mutated_event(
           needs_update_event([s3 EXCEPT !.needs_update[comp] = TRUE], comp), comp)

\* Computation.parse_expression(context, expression, variable_map)
parse_expression(s, comp, expression) ==
    LET s1 == unbind(s, comp)
        old_data_node == s1.data_node[comp]
        old_error_text == s1.error_text[comp]
        parsed == ParseExpression(expression, s1.variables[comp])
        s2 == [s1 EXCEPT !.original_expression[comp] = expression,
                         !.data_node[comp] = parsed[1], !.error_text[comp] = parsed[2]]
        s3 == IF parsed[1] # None THEN bind(s2, comp) ELSE s2
    IN \* a parsed tree is a new object, never equal to the copy of the old one
       IF parsed[1] # None \/ old_data_node # None \/ old_error_text # parsed[2]
       THEN computation_mutated_event(
                needs_update_event([s3 EXCEPT !.needs_update[comp] = TRUE], comp), comp)
       ELSE s3

\* Computation.add_variable, for a variable whose specifier names a data item
add_variable(s, comp, uuid) ==
    computation_mutated_event([s EXCEPT !.variables[comp] = Append(@, uuid)], comp)

\* the value of an expression whose leaf a has the value v
EvaluateNode(node, v) == IF node = "-a" THEN 0 - v ELSE 0 - v + 1

\* BufferedDataSource.set_computation: the data source takes the computation,
\* fires computation_changed_or_mutated_event and tells its manager
set_computation(s, data_item, comp) ==
    LET s1 == [s EXCEPT !.computation[data_item] = comp]
        s2 == IF data_item \in s1.item_listeners
              THEN handle_computation_changed_or_mutated(s1, data_item, comp) ELSE s1
    IN IF s2.raised = None /\ data_item \in s2.data_item_manager
       THEN computation_changed(s2, data_item, data_item, comp)
       ELSE s2

\* ------------------------------------------------------------------ insert and remove

\* insert_data_item without the assertion on membership
insert_data_item_unchecked_member(s, before_index, data_item) ==
    IF ~(before_index <= Len(s.data_items) /\ before_index >= 0)
    THEN Raise(s, "AssertionError")
    ELSE [s EXCEPT !.data_items = ListInsert(@, before_index, data_item),
                   !.storage = @ \cup {data_item},
                   !.item_listeners = @ \cup {data_item}]

\* insert_data_item(before_index, data_item)
insert_data_item(s, before_index, data_item) ==
    IF data_item \in Range(s.data_items) THEN Raise(s, "AssertionError")
    ELSE IF ~(before_index <= Len(s.data_items) /\ before_index >= 0)
         THEN Raise(s, "AssertionError")
    ELSE LET s1 == [s EXCEPT !.data_items = ListInsert(@, before_index, data_item),
                             !.storage = @ \cup {data_item},
                             !.item_listeners = @ \cup {data_item}]
             s2 == handle_computation_changed_or_mutated(s1, data_item, s1.computation[data_item])
         IN IF s2.raised # None THEN s2
            ELSE LET s3 == Fire([s2 EXCEPT !.data_item_manager = @ \cup {data_item},
                                           !.buffered_data_source_set = @ \cup {data_item}],
                                << "data_item_inserted_event", data_item >>)
                     s4 == computation_changed(s3, data_item, data_item, s3.computation[data_item])
                 IN IF s4.computation[data_item] # None
                    THEN bind(s4, s4.computation[data_item]) ELSE s4

\* the first loop of remove_data_item: every pending and active entry for a
\* data source of the data item becomes invalid
InvalidateEntry(entry, data_item, is_pending) ==
    IF entry.buffered_data_source = data_item
    THEN [entry EXCEPT !.valid = FALSE, !.pending_at_remove = @ \/ is_pending]
    ELSE entry

invalidate_queue_items(s, data_item) ==
    [s EXCEPT
       !.computation_pending_queue =
           [i \in 1..Len(@) |-> InvalidateEntry(@[i], data_item, TRUE)],
       !.computation_active_items =
           [i \in 1..Len(@) |-> InvalidateEntry(@[i], data_item, FALSE)],
       !.worker = MarkWorker(@, data_item)]

\* the end of remove_data_item with a return in place of the assertion
finish_remove_data_item_returns(s, data_item) ==
    IF data_item \notin Range(s.data_items) THEN s
    ELSE [s EXCEPT !.data_items = ListDelete(@, ListIndex(s.data_items, data_item)),
                   !.storage = @ \ {data_item},
                   !.item_listeners = @ \ {data_item},
                   !.closed = @ \cup {data_item}]

\* DataItemReference.data_item_removed, for every reference of the document
data_item_removed(s, data_item) ==
    [s EXCEPT !.data_item_references =
        [k \in ReferenceKeys |-> IF @[k] = data_item THEN None ELSE @[k]]]

\* _update_data_item_reference(key, data_item)
update_data_item_reference(s, key, data_item) ==
    IF data_item # None
    THEN [s EXCEPT !.data_item_references_dict[key] = data_item]
    ELSE IF s.data_item_references_dict[key] = NoKey THEN Raise(s, "KeyError")
         ELSE [s EXCEPT !.data_item_references_dict[key] = NoKey]

\* get_data_item_reference(key): the reference of the key, made when missing
get_data_item_reference(s, key) ==
    IF s.data_item_references[key] = NoKey
    THEN [s EXCEPT !.data_item_references[key] = None]
    ELSE s

\* the setter of DataItemReference.data_item
set_reference_data_item(s, key, value) ==
    IF s.data_item_references[key] # value
    THEN update_data_item_reference(
             Fire([s EXCEPT !.data_item_references[key] = value],
                  << "data_item_changed_event", key >>),
             key, value)
    ELSE s

\* setup_channel(data_item_reference_key, data_item)
setup_channel(s, key, data_item) ==
    set_reference_data_item(get_data_item_reference(s, key), key, data_item)

\* the end of remove_data_item, from the assertions on
finish_remove_data_item(s, data_item) ==
    IF data_item \notin Range(s.data_items) THEN Raise(s, "AssertionError")
    ELSE LET index == ListIndex(s.data_items, data_item)
             s0 == Fire([s EXCEPT !.data_items = ListDelete(@, index)],
                        << "del", data_item >>)
             s1 == Fire([s0 EXCEPT !.storage = @ \ {data_item},
                                   !.item_listeners = @ \ {data_item}],
                        << "erase_data_item", data_item >>)
             s2 == Fire(data_item_removed(s1, data_item),
                        << "data_item_removed_event", data_item >>)
             s3 == Fire([s2 EXCEPT !.closed = @ \cup {data_item}], << "close", data_item >>)
         IN Fire(s3, << "data_item_deleted_event", data_item >>)

\* a loop over the dependents that removes none of them
RemoveDependentsNone(s, dependents, i, data_item, stack) == s

\* remove_data_item(data_item). The dependency maps do not change while it
\* runs, so a call for a data item that is already being removed, entered with
\* the same membership list, repeats itself without end: the interpreter ends
\* it with RecursionError. stack holds the calls in progress.
RECURSIVE remove_data_item(_, _, _), RemoveDependentsEach(_, _, _, _, _)
remove_data_item(s, data_item, stack) ==
    IF s.raised # None THEN s
    ELSE IF << data_item, s.data_items >> \in stack THEN Raise(s, "RecursionError")
    ELSE LET s1 == Fire(invalidate_queue_items(s, data_item),
                        << "invalidate_queue_items", data_item >>)
             s2 == Fire(s1, << "data_item_will_be_removed_event", data_item >>)
             s3 == Fire(s2, << "remove_from_groups", data_item >>)
             s4 == RemoveDependentsEach(s3, get_dependent_data_items(s3, data_item), 1, data_item,
                                        stack \cup { << data_item, s.data_items >> })
         IN IF s4.raised # None THEN s4
            ELSE LET s5 == Fire([s4 EXCEPT !.buffered_data_source_set = @ \ {data_item}],
                                << "about_to_be_removed", data_item >>)
                     s6 == [s5 EXCEPT !.data_item_manager = @ \ {data_item}]
                 IN finish_remove_data_item(s6, data_item)

RemoveDependentsEach(s, dependents, i, data_item, stack) ==
    IF i > Len(dependents) \/ s.raised # None THEN s
    ELSE IF get_source_data_items(s, dependents[i]) = << data_item >>
         THEN RemoveDependentsEach(remove_data_item(s, dependents[i], stack),
                                   dependents, i + 1, data_item, stack)
         ELSE RemoveDependentsEach(s, dependents, i + 1, data_item, stack)

\* __finish_read: the data items read from storage come into the document one
\* after the other, then the dependencies of each are resolved, then each
\* computation is bound
RECURSIVE ReadEach(_, _, _), ResolveEach(_, _, _), BindEach(_, _, _)
ReadEach(s, items, i) ==
    IF i > Len(items) THEN s
    ELSE ReadEach([s EXCEPT !.data_items = ListInsert(@, i - 1, items[i]),
                            !.storage = @ \cup {items[i]},
                            !.item_listeners = @ \cup {items[i]},
                            !.data_item_manager = @ \cup {items[i]},
                            !.buffered_data_source_set = @ \cup {items[i]}],
                  items, i + 1)

ResolveEach(s, items, i) ==
    IF i > Len(items) THEN s
    ELSE ResolveEach(
             handle_computation_changed_or_mutated(s, items[i], s.computation[items[i]]),
             items, i + 1)

BindEach(s, items, i) ==
    IF i > Len(items) THEN s
    ELSE BindEach(IF s.computation[items[i]] # None THEN bind(s, s.computation[items[i]]) ELSE s,
                  items, i + 1)

finish_read(s, items) == BindEach(ResolveEach(ReadEach(s, items, 1), items, 1), items, 1)

\* ------------------------------------------------------------------ the worker: __recompute

NoItem ==
    [ data_item |-> None, buffered_data_source |-> None, computation |-> None,
      valid |-> FALSE, pending_at_remove |-> FALSE ]

IdleWorker ==
    [ pc |-> "idle", item |-> NoItem, clone_data |-> 0, clone_modified |-> FALSE,
      evaluate_raised |-> FALSE, raised |-> None ]

\* the bound items of the computations bound to a data item hear its
\* data_and_metadata_changed_event, in the order they were bound; each sets
\* needs_update and fires needs_update_event
RECURSIVE FireDataChanged(_, _, _, _)
FireDataChanged(s, order, i, data_item) ==
    IF i > Len(order) THEN s
    ELSE IF s.bound_items[order[i]] = data_item
         THEN FireDataChanged(
                 needs_update_event([s EXCEPT !.needs_update[order[i]] = TRUE], order[i]),
                 order, i + 1, data_item)
         ELSE FireDataChanged(s, order, i + 1, data_item)

\* buffered_data_source.set_data_and_metadata
set_data_and_metadata(s, buffered_data_source, value) ==
    FireDataChanged([s EXCEPT !.data[buffered_data_source] = value],
                    s.bind_order, 1, buffered_data_source)

\* the start of __recompute: under the queue lock the head of the pending
\* queue moves to the active list; with nothing pending the task fails on the
\* attribute of None
recompute_pop(s) ==
    IF Len(s.computation_pending_queue) > 0
    THEN LET computation_queue_item == Head(s.computation_pending_queue)
         IN [s EXCEPT !.computation_pending_queue = Tail(@),
                      !.computation_active_items = Append(@, computation_queue_item),
                      !.recompute_tasks = @ - 1,
                      !.worker = [IdleWorker EXCEPT !.pc = "popped",
                                                    !.item = computation_queue_item]]
    ELSE [s EXCEPT !.recompute_tasks = @ - 1,
                   !.worker = [IdleWorker EXCEPT !.raised = "AttributeError"]]

\* evaluate has a result when there is a tree and its leaf is bound to a data
\* item; an unbound or unresolved leaf evaluates to None and so does the tree
HasResult(s, comp) == s.data_node[comp] # None /\ s.bound_items[comp] \in DataItems

EvaluateComputation(s, comp) ==
    EvaluateNode(s.data_node[comp], s.data[s.bound_items[comp]])

\* the evaluation without the except clause: the exception ends the task
recompute_evaluate_unhandled(s, outcome) ==
    IF outcome = "raise" /\ s.needs_update[s.worker.item.computation]
    THEN [s EXCEPT !.worker = [IdleWorker EXCEPT !.raised = "Exception"]]
    ELSE [s EXCEPT !.worker.clone_data = s.data[s.worker.item.data_item],
                   !.worker.pc = "evaluated"]

\* the clone and the evaluation against it; outcome is whether the evaluation
\* raises
recompute_evaluate(s, outcome) ==
    LET comp == s.worker.item.computation
        data_item == s.worker.item.data_item
        cloned == [s EXCEPT !.worker.clone_data = s.data[data_item]]
    IN IF ~s.needs_update[comp] THEN [cloned EXCEPT !.worker.pc = "evaluated"]
       ELSE IF outcome = "raise"
            THEN [cloned EXCEPT !.error_text[comp] = "Unable to compute data",
                                !.worker.evaluate_raised = TRUE,
                                !.worker.pc = "finishing"]
       ELSE LET s1 == [cloned EXCEPT !.needs_update[comp] = FALSE, !.worker.pc = "evaluated"]
            IN IF ~HasResult(cloned, comp) THEN s1
               ELSE [s1 EXCEPT !.worker.clone_data = EvaluateComputation(cloned, comp),
                               !.worker.clone_modified = TRUE]

\* history: what __recompute wrote into a live data item, and for which entry
StoreRecord(kind, w) ==
    [ kind |-> kind, buffered_data_source |-> w.item.buffered_data_source,
      value |-> w.clone_data, valid |-> w.item.valid,
      pending_at_remove |-> w.item.pending_at_remove,
      evaluate_raised |-> w.evaluate_raised ]

\* the merge without the check of valid
recompute_merge_unchecked(s) ==
    [s EXCEPT !.worker.pc = "finishing",
              !.data[s.worker.item.buffered_data_source] = s.worker.clone_data,
              !.stores = @ \cup {StoreRecord("merge_from_clone", s.worker)}]

\* the check of valid and the merge of the clone into the live data item
recompute_merge(s) ==
    LET w == s.worker
        done == [s EXCEPT !.worker.pc = "finishing"]
    IN IF ~w.item.valid THEN done
       ELSE LET s1 == IF w.clone_modified
                      THEN set_data_and_metadata(
                               [done EXCEPT !.stores = @ \cup {StoreRecord("set_data_and_metadata", w)}],
                               w.item.buffered_data_source, w.clone_data)
                      ELSE done
            IN [s1 EXCEPT !.stores = @ \cup {StoreRecord("merge_from_clone", w)}]

\* the three steps of the merge, each a step of its own for the other thread
\* to run between: the test of valid,
recompute_check_valid(s) ==
    IF ~s.worker.item.valid
    THEN [s EXCEPT !.worker.pc = "finishing"]
    ELSE [s EXCEPT !.worker.pc = "checked"]

\* the store of the clone's data when the evaluation modified it,
recompute_set_data(s) ==
    LET w == s.worker
        s1 == [s EXCEPT !.worker.pc = "stored"]
    IN IF w.clone_modified
       THEN set_data_and_metadata(
                [s1 EXCEPT !.stores = @ \cup {StoreRecord("set_data_and_metadata", w)}],
                w.item.buffered_data_source, w.clone_data)
       ELSE s1

\* and merge_from_clone
recompute_merge_from_clone(s) ==
    [s EXCEPT !.worker.pc = "finishing",
              !.stores = @ \cup {StoreRecord("merge_from_clone", s.worker)}]

\* the end of __recompute: under the queue lock the entry leaves the active list
recompute_finish(s) ==
    LET found == { i \in 1..Len(s.computation_active_items) :
                     s.computation_active_items[i].buffered_data_source
                         = s.worker.item.buffered_data_source }
    IN IF found = {} THEN [s EXCEPT !.worker = [IdleWorker EXCEPT !.raised = "ValueError"]]
       ELSE [s EXCEPT !.computation_active_items = ListDelete(@, First(found) - 1),
                      !.worker = IdleWorker]

\* ------------------------------------------------------------------ initial state

\* a new document; the data items outside of it were constructed with the
\* computations in built_computation, whose variables are built_variables
NewDocument(built_computation, built_variables) ==
    [ data_items |-> << >>, storage |-> {}, item_listeners |-> {}, data_item_manager |-> {},
      closed |-> {}, buffered_data_source_set |-> {},
      computation |-> built_computation,
      data |-> [d \in DataItems |-> 1],
      variables |-> built_variables,
      data_node |-> [c \in Computations |-> None],
      needs_update |-> [c \in Computations |-> FALSE],
      error_text |-> [c \in Computations |-> None],
      original_expression |-> [c \in Computations |-> None],
      bound_items |-> [c \in Computations |-> "unbound"],
      bind_order |-> << >>,
      dependent_data_items |-> [d \in DataItems |-> << >>],
      source_data_items |-> [d \in DataItems |-> << >>],
      computation_dependency_data_items |-> [d \in DataItems |-> {}],
      transactions |-> [d \in DataItems |-> 0],
      live_data_items |-> [d \in DataItems |-> 0],
      in_transaction_state |-> {}, is_live |-> {},
      computation_pending_queue |-> << >>, computation_active_items |-> << >>,
      computation_changed_listeners |-> << >>, recompute_tasks |-> 0,
      worker |-> IdleWorker, raised |-> None, events |-> << >>, stores |-> {},
      data_item_references |-> [k \in ReferenceKeys |-> NoKey],
      data_item_references_dict |-> [k \in ReferenceKeys |-> NoKey] ]

\* the document starts as s, before any call
Start(s) ==
    /\ data_items = s.data_items
    /\ storage = s.storage
    /\ item_listeners = s.item_listeners
    /\ data_item_manager = s.data_item_manager
    /\ closed = s.closed
    /\ buffered_data_source_set = s.buffered_data_source_set
    /\ computation = s.computation
    /\ data = s.data
    /\ variables = s.variables
    /\ data_node = s.data_node
    /\ needs_update = s.needs_update
    /\ error_text = s.error_text
    /\ original_expression = s.original_expression
    /\ bound_items = s.bound_items
    /\ bind_order = s.bind_order
    /\ dependent_data_items = s.dependent_data_items
    /\ source_data_items = s.source_data_items
    /\ computation_dependency_data_items = s.computation_dependency_data_items
    /\ transactions = s.transactions
    /\ live_data_items = s.live_data_items
    /\ in_transaction_state = s.in_transaction_state
    /\ is_live = s.is_live
    /\ computation_pending_queue = s.computation_pending_queue
    /\ computation_active_items = s.computation_active_items
    /\ computation_changed_listeners = s.computation_changed_listeners
    /\ recompute_tasks = s.recompute_tasks
    /\ worker = s.worker
    /\ raised = s.raised
    /\ events = s.events
    /\ stores = s.stores
    /\ data_item_references = s.data_item_references
    /\ data_item_references_dict = s.data_item_references_dict
    /\ last_call = [op |-> "none", args |-> << >>]
    /\ ops = 0
    /\ user_begins = [transaction |-> [d \in DataItems |-> 0], live |-> [d \in DataItems |-> 0]]
    /\ close_pc = "open"

InitBuilt(built_computation, built_variables) ==
    Start(NewDocument(built_computation, built_variables))

InitDocument == InitBuilt([d \in DataItems |-> None], [c \in Computations |-> << >>])

InitMigrationIdle ==
    /\ reader_info_list = << >>
    /\ migrate_pc = 0
    /\ migrate_log = << >>
    /\ read_result = << >>
    /\ persistent_storage_handlers = << >>
    /\ write_properties_calls = {}

InitNodeIdle ==
    /\ built_node = None
    /\ node_dict = None
    /\ read_node = None
    /\ rewritten_dict = None
    /\ node_pc = "idle"
    /\ reconstructed = None
    /\ reparsed = None
    /\ binder = None

InitThreadsIdle == threads = << >>

Init == InitDocument /\ InitMigrationIdle /\ InitNodeIdle /\ InitThreadsIdle

\* ------------------------------------------------------------------ main-thread calls

\* the state a call starts from: no exception yet, nothing fired yet
Entry == [St EXCEPT !.raised = None, !.events = << >>]

Call(op, args, s, begins) ==
    /\ Commit(s)
    /\ ops' = ops + 1
    /\ last_call' = [op |-> op, args |-> args]
    /\ user_begins' = begins
    /\ UNCHANGED close_pc
    /\ UNCHANGED migvars
    /\ UNCHANGED nodevars
    /\ UNCHANGED threads

InsertDataItem(before_index, data_item) ==
    Call("insert_data_item", << before_index, data_item >>,
         insert_data_item(Entry, before_index, data_item), user_begins)

AppendDataItem(data_item) == InsertDataItem(Len(data_items), data_item)

RemoveDataItem(data_item) ==
    Call("remove_data_item", << data_item >>, remove_data_item(Entry, data_item, {}), user_begins)

\* a computation belongs to one data source at a time
SetComputation(data_item, comp) ==
    /\ computation[data_item] # comp
    /\ comp # None => OwnerOf(St, comp) = None
    /\ Call("set_computation", << data_item, comp >>,
            set_computation(Entry, data_item, comp), user_begins)

AddVariable(comp, uuid) ==
    /\ Len(variables[comp]) < MaxVariables
    /\ Call("add_variable", << comp, uuid >>, add_variable(Entry, comp, uuid), user_begins)

ParseExpressionCall(comp, expression) ==
    Call("parse_expression", << comp, expression >>,
         parse_expression(Entry, comp, expression), user_begins)

BeginTransaction(data_item) ==
    /\ user_begins.transaction[data_item] < MaxBegins
    /\ Call("begin_data_item_transaction", << data_item >>,
            begin_data_item_transaction(Entry, data_item),
            [user_begins EXCEPT !.transaction[data_item] = @ + 1])

\* the caller ends only what it began
EndTransaction(data_item) ==
    /\ user_begins.transaction[data_item] > 0
    /\ Call("end_data_item_transaction", << data_item >>,
            end_data_item_transaction(Entry, data_item),
            [user_begins EXCEPT !.transaction[data_item] = @ - 1])

BeginLive(data_item) ==
    /\ user_begins.live[data_item] < MaxBegins
    /\ Call("begin_data_item_live", << data_item >>,
            begin_data_item_live(Entry, data_item),
            [user_begins EXCEPT !.live[data_item] = @ + 1])

EndLive(data_item) ==
    /\ user_begins.live[data_item] > 0
    /\ Call("end_data_item_live", << data_item >>,
            end_data_item_live(Entry, data_item),
            [user_begins EXCEPT !.live[data_item] = @ - 1])

\* ------------------------------------------------------------------ worker steps

\* a step of the worker thread; how the last main-thread call ended and what
\* it fired are not the worker's to see or to change
WorkerEntry == [St EXCEPT !.raised = None]

WorkerStep(s) ==
    /\ Commit([s EXCEPT !.raised = raised, !.events = events])
    /\ UNCHANGED << ops, last_call, user_begins, close_pc >>
    /\ UNCHANGED migvars
    /\ UNCHANGED nodevars
    /\ UNCHANGED threads

RecomputePop ==
    /\ worker.pc = "idle"
    /\ recompute_tasks > 0
    /\ WorkerStep(recompute_pop(WorkerEntry))

RecomputeEvaluate ==
    /\ worker.pc = "popped"
    /\ \E outcome \in {"ok", "raise"} : WorkerStep(recompute_evaluate(WorkerEntry, outcome))

RecomputeMerge ==
    /\ worker.pc = "evaluated"
    /\ WorkerStep(recompute_merge(WorkerEntry))

RecomputeFinish ==
    /\ worker.pc = "finishing"
    /\ WorkerStep(recompute_finish(WorkerEntry))

\* the merge as the worker thread runs it, a statement at a time
RecomputeCheckValid ==
    /\ worker.pc = "evaluated"
    /\ WorkerStep(recompute_check_valid(WorkerEntry))

RecomputeSetData ==
    /\ worker.pc = "checked"
    /\ WorkerStep(recompute_set_data(WorkerEntry))

RecomputeMergeFromClone ==
    /\ worker.pc = "stored"
    /\ WorkerStep(recompute_merge_from_clone(WorkerEntry))

\* ------------------------------------------------------------------ specifications

\* the main thread makes a bounded number of calls
Within(budget) == ops < budget

\* remove_data_item closes the data item it removes; the specifications below
\* bring no closed data item back into the document
Fresh(data_item) == ~InSet(closed, data_item)

\* the whole document model
Next ==
    \/ \E d \in DataItems : \E i \in -1..(Len(data_items) + 1) :
          Within(MaxOps) /\ InsertDataItem(i, d)
    \/ \E d \in DataItems : Within(MaxOps) /\ RemoveDataItem(d)
    \/ \E d \in DataItems : \E c \in Computations \cup {None} :
          Within(MaxOps) /\ SetComputation(d, c)
    \/ \E c \in Computations : \E u \in DataItems : Within(MaxOps) /\ AddVariable(c, u)
    \/ \E c \in Computations : \E e \in Expressions :
          Within(MaxOps) /\ ParseExpressionCall(c, e)
    \/ \E d \in DataItems : Within(MaxOps) /\ BeginTransaction(d)
    \/ \E d \in DataItems : Within(MaxOps) /\ EndTransaction(d)
    \/ \E d \in DataItems : Within(MaxOps) /\ BeginLive(d)
    \/ \E d \in DataItems : Within(MaxOps) /\ EndLive(d)
    \/ RecomputePop
    \/ RecomputeEvaluate
    \/ RecomputeMerge
    \/ RecomputeFinish

Spec == Init /\ [][Next]_vars

\* Membership and the removal cascade. The data items B and C are built with
\* a computation before they come into the document; the variables of each
\* computation specify one or two data items.
VariableLists ==
    { SetToSeq(S) : S \in { T \in SUBSET DataItems : Cardinality(T) \in 1..MaxVariables } }

InitCascade ==
    /\ InitMigrationIdle
    /\ InitNodeIdle
    /\ InitThreadsIdle
    /\ \E v1 \in VariableLists : \E v2 \in VariableLists :
          InitBuilt([d \in DataItems |->
                        CASE d = "B" -> "c1" [] d = "C" -> "c2" [] OTHER -> None],
                    [c \in Computations |->
                        CASE c = "c1" -> v1 [] c = "c2" -> v2 [] OTHER -> << >>])

NextCascade ==
    \/ \E d \in DataItems : Within(MaxOpsCascade) /\ Fresh(d) /\ AppendDataItem(d)
    \/ \E d \in DataItems : Within(MaxOpsCascade) /\ RemoveDataItem(d)

SpecCascade == InitCascade /\ [][NextCascade]_vars

\* The recompute queue and its worker. The computations are created with one
\* variable that specifies A, as a new computation on A's data is; B and C
\* are the data items that get computations.
QueueItems == {"A", "B", "C"}
QueueTargets == {"B", "C"}
QueueComputations == {"c1", "c2"}

InitQueue ==
    /\ InitMigrationIdle
    /\ InitNodeIdle
    /\ InitThreadsIdle
    /\ InitBuilt([d \in DataItems |-> None], [c \in Computations |-> << "A" >>])

NextQueue ==
    \/ \E d \in QueueItems : Within(MaxOpsQueue) /\ Fresh(d) /\ AppendDataItem(d)
    \/ \E d \in QueueItems : Within(MaxOpsQueue) /\ RemoveDataItem(d)
    \/ \E d \in QueueTargets : \E c \in QueueComputations \cup {None} :
          Within(MaxOpsQueue) /\ SetComputation(d, c)
    \/ \E c \in QueueComputations : \E e \in Expressions :
          Within(MaxOpsQueue) /\ ParseExpressionCall(c, e)
    \/ RecomputePop
    \/ RecomputeEvaluate
    \/ RecomputeMerge
    \/ RecomputeFinish

SpecQueue == InitQueue /\ [][NextQueue]_vars

\* Transaction and live state over the dependencies of a document read from
\* storage. B, C and D hold computations; the libraries cover chains, fans,
\* diamonds, a data item that is its own source and two that are each
\* other's.
LibraryVariables ==
    { [c \in Computations |-> CASE c = "c1" -> << "A" >> [] c = "c2" -> v2 [] OTHER -> v3] :
        v2 \in { << "A" >>, << "B" >>, << "A", "B" >>, << "D" >> },
        v3 \in VariableLists \cup { << >> } }

InitTransaction ==
    /\ InitMigrationIdle
    /\ InitNodeIdle
    /\ InitThreadsIdle
    /\ \E built \in LibraryVariables :
          Start(finish_read(
              NewDocument([d \in DataItems |->
                              CASE d = "B" -> "c1" [] d = "C" -> "c2" [] d = "D" -> "c3"
                                [] OTHER -> None], built),
              ItemOrder))

NextTransaction ==
    \/ \E d \in DataItems : Within(MaxOpsTransaction) /\ BeginTransaction(d)
    \/ \E d \in DataItems : Within(MaxOpsTransaction) /\ EndTransaction(d)
    \/ \E d \in DataItems : Within(MaxOpsTransaction) /\ BeginLive(d)
    \/ \E d \in DataItems : Within(MaxOpsTransaction) /\ EndLive(d)

SpecTransaction == InitTransaction /\ [][NextTransaction]_vars

\* ------------------------------------------------------------------ migration

\* DataItem.writer_version
writer_version == 10

\* A record is the properties dictionary of one storage handler together with
\* its changed_ref.  Of the dictionary the model keeps which top-level keys are
\* present (keys), the version, the uuid, the length of the "operations" list,
\* the data item its operation reads (op_source, 0 for none), whether the
\* operation_id is one the step to 9 knows (op_known), the keys written under
\* metadata.description, and the list of data source dictionaries.  A uuid is a
\* number: h for the uuid stored by handler h, NewUuid and V7Lookup for the
\* ones uuid4() makes, 0 for none.
NewUuid(h) == 100 + h

\* v7lookup.setdefault(uuid, str(uuid.uuid4())): one new uuid per data item uuid
V7Lookup(data_item_uuid) == IF data_item_uuid = 0 THEN 0 ELSE 10 * data_item_uuid + 5

\* properties.get("version", 0)
Version(properties) == IF properties.has_version THEN properties.version ELSE 0

\* if old in properties: properties[new] = properties[old]; del properties[old]
Rename(keys, old, new) == IF old \in keys THEN (keys \ {old}) \cup {new} ELSE keys

\* one step over one record: when the step applies it sets changed_ref first
\* (the steps from 3 on), rewrites the properties and then sets the version;
\* an exception on the way is caught: the version stays, and the properties
\* stay as far as the step had rewritten them (partial)
MigrateRecord(reader_info, applies, to_version, sets_changed, partial, migrated) ==
    IF ~applies THEN reader_info
    ELSE IF reader_info.fails_at = to_version
         THEN [partial EXCEPT !.changed_ref = @ \/ sets_changed]
         ELSE [migrated EXCEPT !.changed_ref = @ \/ sets_changed,
                               !.has_version = TRUE, !.version = to_version]

\* version <= 1 -> 2: calibrations become intrinsic, data_source_uuid goes,
\* "properties" becomes hardware_source; then the data is read for its dtype
\* and shape, displays is set and a new uuid assigned
V2Renamed(r) ==
    LET k1 == Rename(r.keys, "spatial_calibrations", "intrinsic_spatial_calibrations")
        k2 == Rename(k1, "intensity_calibration", "intrinsic_intensity_calibration")
        k3 == k2 \ {"data_source_uuid"}
        k4 == Rename(k3, "properties", "hardware_source")
    IN [r EXCEPT !.keys = k4]

V2(r) ==
    LET s == V2Renamed(r)
    IN [s EXCEPT !.keys = (@ \cup (IF r.has_data
                                   THEN {"master_data_dtype", "master_data_shape"}
                                   ELSE {}))
                          \cup {"displays"},
                 !.uuid = NewUuid(r.handler)]

\* the step to 2 looking for version 1 alone, as the later steps look for one
\* version
migrate_to_v2_from_1(list) ==
    [i \in 1..Len(list) |->
        MigrateRecord(list[i], Version(list[i]) = 1, 2, FALSE, V2Renamed(list[i]), V2(list[i]))]

migrate_to_v2(list) ==
    [i \in 1..Len(list) |->
        MigrateRecord(list[i], Version(list[i]) <= 1, 2, FALSE, V2Renamed(list[i]), V2(list[i]))]

\* 2 -> 3 adds uuids inside displays, graphics and operations; 3 -> 4 renames
\* origin to offset inside the calibrations; 4 -> 5 renames region_uuid inside
\* the operations: no top-level key changes
migrate_to_v3(list) ==
    [i \in 1..Len(list) |-> MigrateRecord(list[i], Version(list[i]) = 2, 3, TRUE, list[i], list[i])]

migrate_to_v4(list) ==
    [i \in 1..Len(list) |-> MigrateRecord(list[i], Version(list[i]) = 3, 4, TRUE, list[i], list[i])]

migrate_to_v5(list) ==
    [i \in 1..Len(list) |-> MigrateRecord(list[i], Version(list[i]) = 4, 5, TRUE, list[i], list[i])]

\* 5 -> 6: a single operation becomes "operation" and takes the data sources
\* list; "operations" and "data_sources" go; the intrinsic calibrations are
\* renamed
V6(r) ==
    LET single == r.operations = 1
        k1 == IF single THEN r.keys \cup {"operation"} ELSE r.keys
        k2 == k1 \ {"operations", "data_sources"}
        k3 == Rename(k2, "intrinsic_intensity_calibration", "intensity_calibration")
        k4 == Rename(k3, "intrinsic_spatial_calibrations", "dimensional_calibrations")
    IN [r EXCEPT !.keys = k4,
                 !.operations = 0,
                 !.op_source = IF single THEN @ ELSE 0,
                 !.op_known = IF single THEN @ ELSE FALSE]

migrate_to_v6(list) ==
    [i \in 1..Len(list) |-> MigrateRecord(list[i], Version(list[i]) = 5, 6, TRUE, list[i], V6(list[i]))]

\* the keys 6 -> 7 moves into the buffered data source dictionary
MovedToDataSource ==
    { "intensity_calibration", "dimensional_calibrations", "master_data_shape",
      "master_data_dtype", "displays", "regions" }

\* 6 -> 7: a buffered data source dictionary takes the calibrations, shape,
\* dtype, displays, regions and the operation; it is kept when there is data
\* or an operation, and dropped otherwise
V7(r) ==
    LET include_data == {"master_data_shape", "master_data_dtype"} \subseteq r.keys
        has_operation == "operation" \in r.keys
        moved == Rename(Rename(r.keys \cap MovedToDataSource,
                               "master_data_shape", "data_shape"),
                        "master_data_dtype", "data_dtype")
        buffered_data_source_dict ==
            [ keys |-> moved \cup (IF has_operation THEN {"data_source"} ELSE {}),
              uuid |-> V7Lookup(r.uuid),
              data_source |-> IF has_operation THEN "operation" ELSE "none",
              op_source |-> IF has_operation THEN V7Lookup(r.op_source) ELSE 0,
              op_known |-> has_operation /\ r.op_known,
              metadata |-> {},
              computation_source |-> 0 ]
        k1 == (r.keys \ MovedToDataSource) \ {"operation"}
    IN [r EXCEPT !.keys = IF include_data \/ has_operation
                          THEN k1 \cup {"data_sources"} ELSE k1,
                 !.data_sources = IF include_data \/ has_operation
                                  THEN << buffered_data_source_dict >> ELSE @,
                 !.op_source = 0,
                 !.op_known = FALSE]

migrate_to_v7(list) ==
    [i \in 1..Len(list) |-> MigrateRecord(list[i], Version(list[i]) = 6, 7, TRUE, list[i], V7(list[i]))]

\* the top-level keys 7 -> 8 leaves where they are
excluded ==
    { "rating", "datetime_original", "title", "source_file_path", "session_id",
      "caption", "flag", "datetime_modified", "connections", "data_sources",
      "uuid", "reader_version", "version", "metadata" }

DescriptionKeys == { "caption", "flag", "rating", "title" }

\* 7 -> 8, up to the parsing of datetime_original: with exactly one data
\* source the other top-level keys move into its metadata and caption, flag,
\* rating and title into metadata.description
V8Moved(r) ==
    LET k0 == r.keys \cup {"metadata"}
    IN IF Len(r.data_sources) = 1
       THEN LET moving == k0 \ excluded
                k1 == k0 \cap excluded
            IN [r EXCEPT !.keys = k1 \ DescriptionKeys,
                         !.description = @ \cup (k1 \cap DescriptionKeys),
                         !.data_sources[1].metadata = @ \cup moving,
                         !.data_sources[1].keys =
                             IF moving # {} THEN @ \cup {"metadata"} ELSE @]
       ELSE [r EXCEPT !.keys = k0]

\* the rest of 7 -> 8: created and modified are set, the time zone goes into
\* the description, datetime_original and datetime_modified are popped
V8(r) ==
    LET s == V8Moved(r)
        s1 == IF Len(s.data_sources) = 1
              THEN [s EXCEPT !.data_sources[1].keys = @ \cup {"created", "modified"}]
              ELSE s
    IN [s1 EXCEPT !.keys = (@ \cup {"created", "modified"})
                            \ {"datetime_original", "datetime_modified"},
                  !.description = @ \cup {"time_zone"}]

migrate_to_v8(list) ==
    [i \in 1..Len(list) |->
        MigrateRecord(list[i], Version(list[i]) = 7, 8, TRUE, V8Moved(list[i]), V8(list[i]))]

\* data_source_uuid_to_data_item_uuid, built from every record of the list
\* whatever its version: the uuid of the data item that holds a data source
\* with this uuid, or 0 when there is none (the caller then makes a new uuid)
Holders(list, data_source_uuid) ==
    { i \in 1..Len(list) :
        \E k \in 1..Len(list[i].data_sources) :
            list[i].data_sources[k].uuid = data_source_uuid }

data_source_uuid_to_data_item_uuid(list, data_source_uuid) ==
    IF data_source_uuid # 0 /\ Holders(list, data_source_uuid) # {}
    THEN list[CHOOSE i \in Holders(list, data_source_uuid) :
                 \A j \in Holders(list, data_source_uuid) : j <= i].uuid
    ELSE 0

\* 8 -> 9 for one data source: an operation-typed data_source is deleted and,
\* when its operation_id is known, replaced by a computation whose variable
\* specifies the data item that held the operation's source
V9DataSource(list, data_source_dict) ==
    IF data_source_dict.data_source = "operation"
    THEN [data_source_dict EXCEPT
            !.keys = (@ \ {"data_source"})
                     \cup (IF data_source_dict.op_known THEN {"computation"} ELSE {}),
            !.data_source = "none",
            !.op_source = 0,
            !.op_known = FALSE,
            !.computation_source =
                IF data_source_dict.op_known
                THEN data_source_uuid_to_data_item_uuid(list, data_source_dict.op_source)
                ELSE @]
    ELSE data_source_dict

V9(list, r) ==
    [r EXCEPT !.data_sources =
        [k \in 1..Len(r.data_sources) |-> V9DataSource(list, r.data_sources[k])]]

migrate_to_v9(list) ==
    [i \in 1..Len(list) |->
        MigrateRecord(list[i], Version(list[i]) = 8, 9, TRUE, list[i], V9(list, list[i]))]

\* 9 -> 10 for one data source: with a display the regions become graphics of
\* the first display; "regions" is popped either way
V10DataSource(data_source) ==
    [data_source EXCEPT
        !.keys = (@ \ {"regions"})
                 \cup (IF {"displays", "regions"} \subseteq data_source.keys
                       THEN {"graphics"} ELSE {})]

V10(r) ==
    [r EXCEPT !.data_sources =
        [k \in 1..Len(r.data_sources) |-> V10DataSource(r.data_sources[k])]]

\* the step to 10 taking every record at 9 or above
migrate_to_v10_from_9_up(list) ==
    [i \in 1..Len(list) |->
        MigrateRecord(list[i], Version(list[i]) >= 9, 10, TRUE, list[i], V10(list[i]))]

migrate_to_v10(list) ==
    [i \in 1..Len(list) |->
        MigrateRecord(list[i], Version(list[i]) = 9, 10, TRUE, list[i], V10(list[i]))]

\* read_data_items, first loop: the properties of every handler are read; a
\* handler whose read_properties raises gets no entry in reader_info_list
ReadsProperties(handler) == handler.fails_at # 1

ReadProperties ==
    /\ migrate_pc = 1
    /\ migrate_pc' = 2
    /\ reader_info_list' = SelectSeq(persistent_storage_handlers, ReadsProperties)
    /\ migrate_log' = [i \in 1..Len(reader_info_list') |->
                          [ found |-> Version(reader_info_list'[i]), applied |-> << >> ]]
    /\ UNCHANGED nodevars
    /\ UNCHANGED threads
    /\ UNCHANGED << docvars, last_call, ops, user_begins, read_result,
                    persistent_storage_handlers, write_properties_calls >>

\* a call of __migrate_to_latest is at the step that makes version pc
MigrateStep(pc, migrated) ==
    /\ migrate_pc = pc
    /\ reader_info_list' = migrated
    /\ migrate_pc' = pc + 1
    /\ migrate_log' = [i \in 1..Len(migrate_log) |->
                          IF Version(migrated[i]) # Version(reader_info_list[i])
                          THEN [migrate_log[i] EXCEPT
                                  !.applied = Append(@, Version(migrated[i]))]
                          ELSE migrate_log[i]]
    /\ UNCHANGED nodevars
    /\ UNCHANGED threads
    /\ UNCHANGED << docvars, last_call, ops, user_begins, read_result,
                    persistent_storage_handlers, write_properties_calls >>

MigrateToV2 == MigrateStep(2, migrate_to_v2(reader_info_list))
MigrateToV3 == MigrateStep(3, migrate_to_v3(reader_info_list))
MigrateToV4 == MigrateStep(4, migrate_to_v4(reader_info_list))
MigrateToV5 == MigrateStep(5, migrate_to_v5(reader_info_list))
MigrateToV6 == MigrateStep(6, migrate_to_v6(reader_info_list))
MigrateToV7 == MigrateStep(7, migrate_to_v7(reader_info_list))
MigrateToV8 == MigrateStep(8, migrate_to_v8(reader_info_list))
MigrateToV9 == MigrateStep(9, migrate_to_v9(reader_info_list))
MigrateToV10 == MigrateStep(10, migrate_to_v10(reader_info_list))

\* __migrate_to_latest as a whole
migrate_to_latest(list) ==
    migrate_to_v10(migrate_to_v9(migrate_to_v8(migrate_to_v7(migrate_to_v6(
        migrate_to_v5(migrate_to_v4(migrate_to_v3(migrate_to_v2(list)))))))))

\* a load loop that takes every record at or above the writer's version
AtOrAboveWriterVersion(reader_info) == Version(reader_info) >= writer_version

\* the load loop looks at the records at the writer's version only
AtWriterVersion(reader_info) == Version(reader_info) = writer_version

\* ... writes their properties back when a step changed them, before the data
\* item is constructed
WritesProperties(list) ==
    { list[i].handler : i \in { j \in 1..Len(list) :
                                  AtWriterVersion(list[j]) /\ list[j].changed_ref } }

\* data_items_by_uuid[data_item.uuid] = data_item: a later data item with the
\* same uuid takes the place of the earlier one
DictStore(by_uuid, data_item) ==
    IF \E j \in 1..Len(by_uuid) : by_uuid[j].uuid = data_item.uuid
    THEN [j \in 1..Len(by_uuid) |->
             IF by_uuid[j].uuid = data_item.uuid THEN data_item ELSE by_uuid[j]]
    ELSE Append(by_uuid, data_item)

\* a load loop without the try: the exception of a constructor ends the loop
RECURSIVE LoadEachUncaught(_, _, _)
LoadEachUncaught(list, i, by_uuid) ==
    IF i > Len(list) THEN by_uuid
    ELSE IF ~AtWriterVersion(list[i]) THEN LoadEachUncaught(list, i + 1, by_uuid)
    ELSE IF list[i].fails_at = writer_version + 1 THEN by_uuid
    ELSE LoadEachUncaught(list, i + 1, DictStore(by_uuid, list[i]))

\* ... and constructs the data item from the properties; an exception on the
\* way is caught and the record left out
RECURSIVE LoadEach(_, _, _)
LoadEach(list, i, by_uuid) ==
    IF i > Len(list) THEN by_uuid
    ELSE IF AtWriterVersion(list[i]) /\ list[i].fails_at # writer_version + 1
         THEN LoadEach(list, i + 1, DictStore(by_uuid, list[i]))
         ELSE LoadEach(list, i + 1, by_uuid)

\* data_items.sort(key=sort_by_date_key): a stable sort by created
RECURSIVE SortInsert(_, _)
SortInsert(sorted, data_item) ==
    IF sorted = << >> THEN << data_item >>
    ELSE IF sorted[Len(sorted)].created <= data_item.created
         THEN Append(sorted, data_item)
         ELSE Append(SortInsert(SubSeq(sorted, 1, Len(sorted) - 1), data_item),
                     sorted[Len(sorted)])

RECURSIVE SortByCreated(_, _, _)
SortByCreated(by_uuid, i, sorted) ==
    IF i > Len(by_uuid) THEN sorted
    ELSE SortByCreated(by_uuid, i + 1, SortInsert(sorted, by_uuid[i]))

\* the data items read_data_items returns for a migrated list
ReadDataItems(list) == SortByCreated(LoadEach(list, 1, << >>), 1, << >>)

\* the rest of read_data_items (without a target document)
ReadMigrated ==
    /\ migrate_pc = writer_version + 1
    /\ migrate_pc' = migrate_pc + 1
    /\ write_properties_calls' = write_properties_calls \cup WritesProperties(reader_info_list)
    /\ read_result' = ReadDataItems(reader_info_list)
    /\ UNCHANGED nodevars
    /\ UNCHANGED threads
    /\ UNCHANGED << docvars, last_call, ops, user_begins, reader_info_list, migrate_log,
                    persistent_storage_handlers >>

\* the properties files found: with or without a version, older than, at or
\* newer than the writer's.  A file may be one that cannot be read (1), that a
\* step cannot handle (2, 6, 8, 10) or that no data item can be made from (11)
FoundVersions == (0 - 1)..(writer_version + 1)
FailingSteps == {0, 1, 2, 6, 8, 10, 11}

\* keys a record may carry at every version up to 7
DescriptiveKeys ==
    { "title", "caption", "flag", "rating", "datetime_original", "datetime_modified" }

\* the top-level keys a full record of a version carries, besides the ones
\* that depend on its operations and data
FormatKeys(version) ==
    IF version <= 1
    THEN DescriptiveKeys \cup { "spatial_calibrations", "intensity_calibration",
                                "data_source_uuid", "properties", "regions" }
    ELSE IF version <= 5
    THEN DescriptiveKeys \cup { "intrinsic_spatial_calibrations",
                                "intrinsic_intensity_calibration", "hardware_source",
                                "displays", "regions" }
    ELSE IF version = 6
    THEN DescriptiveKeys \cup { "dimensional_calibrations", "intensity_calibration",
                                "hardware_source", "displays", "regions" }
    ELSE IF version = 7
    THEN DescriptiveKeys \cup { "hardware_source" }
    ELSE { "metadata", "created", "modified" }

\* the keys of a full data source dictionary of a version from 7 on
DataSourceFormatKeys(version) ==
    { "intensity_calibration", "dimensional_calibrations", "data_shape", "data_dtype",
      "displays" }
    \cup (IF version <= 9 THEN {"regions"} ELSE {"graphics"})
    \cup (IF version >= 8 THEN {"metadata", "created", "modified"} ELSE {})

\* data source k of the record of handler h, as a record of the version holds
\* it; the first one may be derived from the first data source of another
\* record, by an operation up to 8 and by a computation from 9 on
DataSourceFixture(h, version, shape, k) ==
    LET derived == k = 1 /\ shape.operations > 0
        other == MaxRecords + 1 - h
    IN [ keys |-> (IF shape.full THEN DataSourceFormatKeys(version) ELSE {})
                  \cup (IF derived
                        THEN (IF version <= 8 THEN {"data_source"} ELSE {"computation"})
                        ELSE {}),
         uuid |-> 10 * h + k,
         data_source |-> IF derived /\ version <= 8 THEN "operation" ELSE "none",
         op_source |-> IF derived /\ version <= 8 THEN 10 * other + 1 ELSE 0,
         op_known |-> derived /\ version <= 8,
         metadata |-> IF shape.full /\ version >= 8 THEN {"hardware_source"} ELSE {},
         computation_source |-> IF derived /\ version >= 9 THEN other ELSE 0 ]

\* the record of handler h at a version, of a shape: full or bare, with so
\* many operations (up to version 6) or data sources (from 7 on), with or
\* without data
Fixture(h, has_version, version, shape, fails_at) ==
    LET old == version <= 6
        structural ==
            (IF version <= 5 /\ shape.operations > 0
             THEN {"operations", "data_sources"} ELSE {})
            \cup (IF version = 6 /\ shape.operations > 0 THEN {"operation"} ELSE {})
            \cup (IF version >= 2 /\ old /\ shape.with_data
                  THEN {"master_data_dtype", "master_data_shape"} ELSE {})
            \cup (IF ~old /\ shape.data_sources > 0 THEN {"data_sources"} ELSE {})
    IN [ handler |-> h,
         has_version |-> has_version,
         version |-> version,
         changed_ref |-> FALSE,
         fails_at |-> fails_at,
         keys |-> (IF shape.full THEN FormatKeys(version) ELSE {}) \cup structural,
         uuid |-> h,
         created |-> MaxRecords + 1 - h,
         has_data |-> shape.with_data,
         operations |-> IF version <= 5 THEN shape.operations ELSE 0,
         op_source |-> IF old /\ shape.operations > 0 THEN MaxRecords + 1 - h ELSE 0,
         op_known |-> old /\ shape.operations > 0,
         description |-> IF shape.full /\ version >= 8
                         THEN {"title", "caption", "flag", "rating", "time_zone"} ELSE {},
         data_sources |-> IF old THEN << >>
                          ELSE [k \in 1..shape.data_sources |->
                                   DataSourceFixture(h, version, shape, k)] ]

\* the shapes tried for a record alone, and the one shape of the records of a
\* pair: full, with data, the first of its data sources derived from the other
\* record
Shapes(version) ==
    IF version <= 5
    THEN [ full : BOOLEAN, operations : 0..2, with_data : BOOLEAN, data_sources : {0} ]
    ELSE IF version = 6
    THEN [ full : BOOLEAN, operations : 0..1, with_data : BOOLEAN, data_sources : {0} ]
    ELSE [ full : BOOLEAN, operations : 0..1, with_data : {TRUE}, data_sources : 0..2 ]

PairShape(version) ==
    [ full |-> TRUE, operations |-> 1, with_data |-> TRUE,
      data_sources |-> IF version <= 6 THEN 0 ELSE 1 ]

\* the records a handler may hold when it is the only one, and when it is one
\* of several
ReaderInfos(h) ==
    UNION { { Fixture(h, TRUE, version, shape, fails_at) :
                shape \in Shapes(version), fails_at \in FailingSteps } :
            version \in FoundVersions }
    \cup { Fixture(h, FALSE, 0, shape, fails_at) :
             shape \in Shapes(0), fails_at \in FailingSteps }

PairReaderInfos(h) ==
    { Fixture(h, TRUE, version, PairShape(version), fails_at) :
        version \in FoundVersions, fails_at \in FailingSteps }
    \cup { Fixture(h, FALSE, 0, PairShape(0), fails_at) : fails_at \in FailingSteps }

InitMigrate ==
    /\ InitDocument
    /\ InitNodeIdle
    /\ InitThreadsIdle
    /\ read_result = << >>
    /\ write_properties_calls = {}
    /\ migrate_pc = 1
    /\ reader_info_list = << >>
    /\ migrate_log = << >>
    /\ \E n \in 1..MaxRecords :
          IF n = 1
          THEN \E found \in ReaderInfos(1) : persistent_storage_handlers = << found >>
          ELSE \E found \in [1..n -> UNION { PairReaderInfos(h) : h \in 1..n }] :
                  /\ \A h \in 1..n : found[h].handler = h
                  /\ persistent_storage_handlers = found

NextMigrate ==
    \/ ReadProperties
    \/ MigrateToV2
    \/ MigrateToV3
    \/ MigrateToV4
    \/ MigrateToV5
    \/ MigrateToV6
    \/ MigrateToV7
    \/ MigrateToV8
    \/ MigrateToV9
    \/ MigrateToV10
    \/ ReadMigrated

SpecMigrate == InitMigrate /\ [][NextMigrate]_vars

\* the output versions of the steps that are to have run, before step pc, on
\* a record found at version v: from 2 for a record at 1 or below, from v + 1
\* otherwise, one by one
StepsDue(v, pc) ==
    LET first == IF v <= 1 THEN 2 ELSE v + 1
        last == IF pc - 1 > writer_version THEN writer_version ELSE pc - 1
    IN [k \in 1..(IF last >= first THEN last - first + 1 ELSE 0) |-> first + k - 1]

NoError(i) == reader_info_list[i].fails_at = 0

\* C10: a record found at version 9 or below whose steps raise no error gets
\* the steps from its version up to 10, each once and in order, a record at 1
\* or below starting with the step to 2; its version is the output version of
\* the last step applied, and 10 at the end.
C10_MigratesInOrder ==
    \A i \in 1..Len(reader_info_list) :
        (NoError(i) /\ migrate_log[i].found <= 9) =>
            /\ migrate_log[i].applied = StepsDue(migrate_log[i].found, migrate_pc)
            /\ Version(reader_info_list[i]) =
                  IF migrate_log[i].applied = << >> THEN migrate_log[i].found
                  ELSE migrate_log[i].applied[Len(migrate_log[i].applied)]
            /\ migrate_pc > writer_version => Version(reader_info_list[i]) = writer_version

\* a record without a version and a record found at 5 have both come to 10
C10_Witness ==
    /\ migrate_pc > writer_version
    /\ \E i \in 1..Len(reader_info_list) :
          /\ NoError(i)
          /\ migrate_log[i] = [ found |-> 0, applied |-> << 2, 3, 4, 5, 6, 7, 8, 9, 10 >> ]
    /\ \E i \in 1..Len(reader_info_list) :
          /\ NoError(i)
          /\ migrate_log[i] = [ found |-> 5, applied |-> << 6, 7, 8, 9, 10 >> ]

\* ------------------------------------------------------------------ records the pipeline leaves alone

\* the properties the handler of a record stores
Stored(reader_info) == persistent_storage_handlers[reader_info.handler]

Returned(h) == \E j \in 1..Len(read_result) : read_result[j].handler = h

\* C11: a record found at a version above the writer's is the same after every
\* migration step as its handler stores it, its handler is never written to
\* during the load, and no returned data item comes from it.
C11_NewerRecordSkipped ==
    \A i \in 1..Len(reader_info_list) :
        migrate_log[i].found > writer_version =>
            /\ reader_info_list[i] = Stored(reader_info_list[i])
            /\ ~InSet(write_properties_calls, reader_info_list[i].handler)
            /\ ~Returned(reader_info_list[i].handler)

\* the load is over; a record found at 11 was read next to one that was
\* migrated, written back and returned
C11_Witness ==
    /\ migrate_pc > writer_version + 1
    /\ \E i \in 1..Len(reader_info_list) : migrate_log[i].found = writer_version + 1
    /\ \E i \in 1..Len(reader_info_list) :
          /\ migrate_log[i].found < writer_version
          /\ InSet(write_properties_calls, reader_info_list[i].handler)
          /\ Returned(reader_info_list[i].handler)

\* C12: a record found at the writer's version keeps every key, stays at 10
\* with its changed flag false through the whole pipeline, and its handler
\* gets no write_properties call during read_data_items.
C12_CurrentRecordUnchanged ==
    \A i \in 1..Len(reader_info_list) :
        migrate_log[i].found = writer_version =>
            /\ reader_info_list[i] = Stored(reader_info_list[i])
            /\ Version(reader_info_list[i]) = writer_version
            /\ ~reader_info_list[i].changed_ref
            /\ migrate_log[i].applied = << >>
            /\ ~InSet(write_properties_calls, reader_info_list[i].handler)

\* a full record found at 10, with a data source, has been through the
\* pipeline and was returned
C12_Witness ==
    /\ migrate_pc > writer_version + 1
    /\ \E i \in 1..Len(reader_info_list) :
          /\ migrate_log[i].found = writer_version
          /\ reader_info_list[i].has_version
          /\ Len(reader_info_list[i].data_sources) > 0
          /\ InSet(reader_info_list[i].keys, "metadata")
          /\ Returned(reader_info_list[i].handler)

\* ------------------------------------------------------------------ a record that fails

\* the handler's record raises during the load: when it is read, in the step
\* it cannot handle if it comes to that step, or when the data item is made
Fails(handler) ==
    LET found == Version(handler)
        at == handler.fails_at
    IN \/ at = 1
       \/ at = 2 /\ found <= 1
       \/ at > 2 /\ at <= writer_version /\ found < at
       \/ at = writer_version + 1 /\ found <= writer_version

Others(h) == SelectSeq(persistent_storage_handlers, LAMBDA handler : IsNot(handler.handler, h))

\* read_data_items as a whole, for the handlers found
read_data_items(handlers) ==
    ReadDataItems(migrate_to_latest(SelectSeq(handlers, ReadsProperties)))

\* a returned data item as a document holding the returned data items sees
\* it: a uuid in a specifier that names none of them resolves to nothing
Resolved(result, data_source) ==
    [data_source EXCEPT !.computation_source =
        IF \E j \in 1..Len(result) : result[j].uuid = @ THEN @ ELSE 0]

AsLoaded(result) ==
    [j \in 1..Len(result) |->
        [result[j] EXCEPT !.data_sources =
            [k \in 1..Len(result[j].data_sources) |->
                Resolved(result, result[j].data_sources[k])]]]

RemovedKeys ==
    { "spatial_calibrations", "properties", "data_source_uuid",
      "intrinsic_spatial_calibrations", "intrinsic_intensity_calibration",
      "operations", "operation", "master_data_shape", "master_data_dtype",
      "displays", "regions", "datetime_original", "datetime_modified",
      "title", "caption", "flag", "rating" }

\* C14: a record found at a version from 0 to 9, of any shape, that has come
\* to version 10 holds none of the top-level keys a step removes, and none of
\* its data sources holds "regions" or an operation-typed "data_source".
C14_NoLeftoverKeys ==
    \A i \in 1..Len(reader_info_list) :
        ( /\ migrate_log[i].found >= 0
          /\ migrate_log[i].found <= 9
          /\ Version(reader_info_list[i]) = writer_version ) =>
            /\ reader_info_list[i].keys \cap RemovedKeys = {}
            /\ \A k \in 1..Len(reader_info_list[i].data_sources) :
                  /\ ~InSet(reader_info_list[i].data_sources[k].keys, "regions")
                  /\ reader_info_list[i].data_sources[k].data_source # "operation"

\* ------------------------------------------------------------------ expression trees

\* the height of the expression trees built
MaxDepth == 2

\* A number is kept in tenths, so that 3 is 30 and 2.5 is 25: int() drops
\* the fraction, float() keeps the value. A key a dict does not hold has
\* the value Absent.
Absent == [kind |-> "absent", re |-> 0, im |-> 0]
Number(kind, re, im) == [kind |-> kind, re |-> re, im |-> im]
ToInt(value) == Number("int", (value.re \div 10) * 10, 0)
ToFloat(value) == Number("float", value.re, 0)
ToComplex(value) == Number("complex", value.re, value.im)

\* the constants an expression can hold: 3, 2.5 and 1+2j
ConstantValues == { Number("int", 30, 0), Number("float", 25, 0), Number("complex", 10, 20) }

\* ConstantDataNode.__init__: the scalar type of a number
ScalarTypeOf(value) ==
    CASE value.kind = "int" -> "integral"
      [] value.kind = "float" -> "real"
      [] value.kind = "complex" -> "complex"
      [] OTHER -> "unset"

\* the object specifiers of the variable map
Specifier(type, uuid) == [type |-> type, version |-> 1, uuid |-> uuid]
NoSpecifier == Specifier(None, 0)
\* the specifier ReferenceDataNode.read makes up when the dict has none: its
\* uuid is a fresh uuid4
DefaultSpecifier == Specifier("reference", 999)

\* a node object; an attribute that was never assigned is "unset"
EmptyNode ==
    [ type |-> None, uuid |-> 0, inputs |-> << >>, scalar |-> Absent,
      scalar_type |-> "unset", function_id |-> None, args |-> {},
      object_specifier |-> NoSpecifier, property |-> None ]

\* a written dict; a key that is not in the dict is Absent, None, empty or
\* NoSpecifier
EmptyDict ==
    [ data_node_type |-> None, uuid |-> 0, inputs |-> << >>, scalar_type |-> None,
      value |-> Absent, function_id |-> None, args |-> {},
      object_specifier |-> NoSpecifier, property |-> None ]

\* the constructors, as the expression language calls them
ConstantDataNode(uuid, value) ==
    [EmptyNode EXCEPT !.type = "constant", !.uuid = uuid, !.scalar = value,
                      !.scalar_type = ScalarTypeOf(value)]
OperationDataNode(type, uuid, inputs, function_id, args) ==
    [EmptyNode EXCEPT !.type = type, !.uuid = uuid, !.inputs = inputs,
                      !.function_id = function_id, !.args = args]
SpecifiedDataNode(type, uuid, object_specifier, property) ==
    [EmptyNode EXCEPT !.type = type, !.uuid = uuid,
                      !.object_specifier = object_specifier, !.property = property]

\* DataNode._node_map
node_map == { "constant", "scalar", "unary", "binary", "function", "property",
              "reference", "variable", "data" }

Returns(value) == [raised |-> None, value |-> value]
Raises(exception, value) == [raised |-> exception, value |-> value]

\* the first input, in order, whose call raised
FirstRaised(results) ==
    LET failed == { i \in 1..Len(results) : results[i].raised # None }
    IN IF failed = {} THEN 0 ELSE CHOOSE i \in failed : \A j \in failed : i <= j

\* ConstantDataNode.write after the base write: the scalar type is read from
\* the attribute, which raises when it was never assigned
ConstantWrite(node, d) ==
    IF node.scalar_type = "unset"
    THEN Raises("AttributeError", EmptyDict)
    ELSE Returns([d EXCEPT !.data_node_type = "constant",
                        !.scalar_type = node.scalar_type,
                        !.value = CASE node.scalar_type = "integral" -> ToInt(node.scalar)
                                    [] node.scalar_type = "real" -> ToFloat(node.scalar)
                                    [] node.scalar_type = "complex" -> ToComplex(node.scalar)
                                    [] OTHER -> Absent])

\* a constant that does not look up the attribute: it writes the type of the
\* scalar it holds
ConstantWriteOfScalar(node, d) ==
    Returns([d EXCEPT !.data_node_type = "constant",
                   !.scalar_type = ScalarTypeOf(node.scalar),
                   !.value = node.scalar])

\* the write of each variant after the base write
WriteVariant(node, d) ==
    CASE node.type = "constant" -> ConstantWrite(node, d)
      [] node.type \in {"scalar", "unary", "binary", "function"} ->
            Returns([d EXCEPT !.data_node_type = node.type,
                           !.function_id = node.function_id,
                           !.args = node.args])
      [] node.type \in {"data", "variable", "reference"} ->
            Returns([d EXCEPT !.data_node_type = node.type,
                           !.object_specifier = node.object_specifier])
      [] node.type = "property" ->
            Returns([d EXCEPT !.data_node_type = "property",
                           !.object_specifier = node.object_specifier,
                           !.property = node.property])

\* DataNode.write and the overriding write of the node's class
RECURSIVE write(_)
write(node) ==
    LET input_dicts == [i \in 1..Len(node.inputs) |-> write(node.inputs[i])]
        failed == FirstRaised(input_dicts)
    IN IF failed # 0
       THEN Raises(input_dicts[failed].raised, EmptyDict)
       ELSE WriteVariant(node,
                [EmptyDict EXCEPT !.uuid = node.uuid,
                                  !.inputs = [i \in 1..Len(node.inputs) |->
                                                 input_dicts[i].value]])

\* setdefault on an args dict, kept as a set of << key, value >>
SetDefault(args, key, value) ==
    IF \E pair \in args : pair[1] = key THEN args ELSE args \cup {<< key, value >>}

\* the read of each variant after the base read
ReadVariant(node, d) ==
    CASE node.type = "constant" ->
            IF d.scalar_type = "integral"
            THEN Returns([node EXCEPT !.scalar = ToInt(d.value)])
            ELSE IF d.scalar_type = "real"
            THEN Returns([node EXCEPT !.scalar = ToFloat(d.value)])
            ELSE IF d.scalar_type = "complex"
            THEN \* complex(*d["value"]) unpacks a number
                 Raises("TypeError", EmptyNode)
            ELSE Returns(node)
      [] node.type \in {"scalar", "binary", "function"} ->
            Returns([node EXCEPT !.function_id = d.function_id, !.args = d.args])
      [] node.type = "unary" ->
            Returns([node EXCEPT !.function_id = d.function_id,
                              !.args = IF d.function_id \in {"column", "row"}
                                       THEN SetDefault(SetDefault(d.args, "start", None),
                                                       "stop", None)
                                       ELSE d.args])
      [] node.type \in {"data", "variable"} ->
            Returns([node EXCEPT !.object_specifier = d.object_specifier])
      [] node.type = "reference" ->
            Returns([node EXCEPT !.object_specifier =
                                 IF d.object_specifier = NoSpecifier
                                 THEN DefaultSpecifier ELSE d.object_specifier])
      [] node.type = "property" ->
            Returns([node EXCEPT !.object_specifier = d.object_specifier,
                              !.property = d.property])

\* DataNode.factory: the class of the type is constructed without arguments
\* and reads the dict; DataNode.read gives it the uuid and the inputs, each
\* made by the factory
RECURSIVE factory(_)
factory(d) ==
    IF d.data_node_type \notin node_map
    THEN Raises("AssertionError", EmptyNode)
    ELSE LET inputs == [i \in 1..Len(d.inputs) |-> factory(d.inputs[i])]
             failed == FirstRaised(inputs)
         IN IF failed # 0
            THEN Raises(inputs[failed].raised, EmptyNode)
            ELSE ReadVariant(
                    [EmptyNode EXCEPT !.type = d.data_node_type, !.uuid = d.uuid,
                                      !.inputs = [i \in 1..Len(d.inputs) |->
                                                     inputs[i].value]],
                    d)

\* the nodes without inputs; the uuid of a node is its height
Leaves ==
    { ConstantDataNode(1, value) : value \in ConstantValues }
    \cup { SpecifiedDataNode("data", 1, Specifier("data_item", 11), None),
           SpecifiedDataNode("variable", 1, Specifier("variable", 12), None),
           SpecifiedDataNode("reference", 1, Specifier("region", 13), None),
           SpecifiedDataNode("property", 1, Specifier("region", 13), "position") }

\* the nodes the expression language builds over given inputs: amin(a),
\* item(a, key), -a, column(a), column(a, start, stop), a + b, fft(a),
\* data_slice(a, key)
Over(uuid, inputs) ==
    UNION { { OperationDataNode("scalar", uuid, << a >>, "amin", {}),
              OperationDataNode("scalar", uuid, << a >>, "item", {<< "key", "1" >>}),
              OperationDataNode("unary", uuid, << a >>, "neg", {}),
              OperationDataNode("unary", uuid, << a >>, "column",
                                {<< "start", None >>, << "stop", None >>}),
              OperationDataNode("unary", uuid, << a >>, "column",
                                {<< "start", "1" >>, << "stop", "2" >>}),
              OperationDataNode("function", uuid, << a >>, "fft", {}),
              OperationDataNode("function", uuid, << a >>, "data_slice",
                                {<< "key", "1" >>}) } : a \in inputs }
    \cup { OperationDataNode("binary", uuid, << a, b >>, "add", {}) :
             a \in inputs, b \in inputs }

RECURSIVE Trees(_)
Trees(depth) ==
    IF depth = 0 THEN Leaves
    ELSE Trees(depth - 1) \cup Over(depth + 1, Trees(depth - 1))

InitSerialize ==
    /\ InitDocument
    /\ InitMigrationIdle
    /\ InitThreadsIdle
    /\ built_node \in Trees(MaxDepth)
    /\ node_dict = Returns(EmptyDict)
    /\ read_node = Returns(EmptyNode)
    /\ rewritten_dict = Returns(EmptyDict)
    /\ node_pc = "built"
    /\ reconstructed = None
    /\ reparsed = None
    /\ binder = None

\* node.write()
WriteNode ==
    /\ node_pc = "built"
    /\ node_dict' = write(built_node)
    /\ node_pc' = "written"
    /\ UNCHANGED << docvars, migvars, threads, reconstructed, reparsed, binder,
                   built_node, read_node, rewritten_dict >>

\* DataNode.factory(d) on the dict the node wrote
FactoryNode ==
    /\ node_pc = "written"
    /\ node_dict.raised = None
    /\ read_node' = factory(node_dict.value)
    /\ node_pc' = "read"
    /\ UNCHANGED << docvars, migvars, threads, reconstructed, reparsed, binder,
                   built_node, node_dict, rewritten_dict >>

\* write() on the node the factory returned
WriteAgain ==
    /\ node_pc = "read"
    /\ read_node.raised = None
    /\ rewritten_dict' = write(read_node.value)
    /\ node_pc' = "rewritten"
    /\ UNCHANGED << docvars, migvars, threads, reconstructed, reparsed, binder,
                   built_node, node_dict, read_node >>

NextSerialize ==
    \/ WriteNode
    \/ FactoryNode
    \/ WriteAgain

SpecSerialize == InitSerialize /\ [][NextSerialize]_vars

\* C15: for every tree built from the node variants, writing the node that
\* DataNode.factory made from node.write() raises nothing and gives a dict
\* equal to node.write().
C15_WriteIsFixedPoint ==
    /\ node_pc = "read" => read_node.raised = None
    /\ node_pc = "rewritten" =>
          /\ rewritten_dict.raised = None
          /\ rewritten_dict.value = node_dict.value

\* ------------------------------------------------------------------ outstanding entries

\* the entries outstanding for a data source: pending or active
Outstanding(buffered_data_source) ==
    Cardinality(EntriesFor(computation_pending_queue, buffered_data_source))
    + Cardinality(EntriesFor(computation_active_items, buffered_data_source))

\* C16: at every moment there is at most one outstanding ComputationQueueItem
\* per buffered data source, counting the pending queue and the active set
\* together.
C16_AtMostOneOutstanding ==
    \A d \in DataItems : Outstanding(d) <= 1

\* a main-thread call in which computation_changed runs for a data source
\* with no computation
ComputationChangedToNone(buffered_data_source) ==
    /\ ops' # ops
    /\ raised' = None
    /\ \/ /\ last_call'.op = "set_computation"
          /\ last_call'.args = << buffered_data_source, None >>
          /\ InSet(data_item_manager, buffered_data_source)
       \/ /\ last_call'.op = "insert_data_item"
          /\ last_call'.args[2] = buffered_data_source
          /\ computation[buffered_data_source] = None

AllInvalid(queue, buffered_data_source) ==
    \A i \in EntriesFor(queue, buffered_data_source) : ~queue[i].valid

\* C17: computation_changed(item, S, None) marks every pending entry and every
\* active entry for data source S invalid, and removes no entry from the
\* pending queue or the active set.
C17_NoneInvalidatesAll ==
    [][\A d \in DataItems :
          ComputationChangedToNone(d) =>
              /\ AllInvalid(computation_pending_queue', d)
              /\ AllInvalid(computation_active_items', d)
              /\ Len(computation_pending_queue') = Len(computation_pending_queue)
              /\ Len(computation_active_items') = Len(computation_active_items)]_vars

\* ------------------------------------------------------------------ the race on valid

\* The queue with the worker's merge interleaved with the main thread.
InitRace == InitQueue

NextRace ==
    \/ \E d \in QueueItems : Within(MaxOpsRace) /\ Fresh(d) /\ AppendDataItem(d)
    \/ \E d \in QueueItems : Within(MaxOpsRace) /\ RemoveDataItem(d)
    \/ \E d \in QueueTargets : \E c \in QueueComputations \cup {None} :
          Within(MaxOpsRace) /\ SetComputation(d, c)
    \/ \E c \in QueueComputations : \E e \in Expressions :
          Within(MaxOpsRace) /\ ParseExpressionCall(c, e)
    \/ RecomputePop
    \/ RecomputeEvaluate
    \/ RecomputeCheckValid
    \/ RecomputeSetData
    \/ RecomputeMergeFromClone
    \/ RecomputeFinish

SpecRace == InitRace /\ [][NextRace]_vars

\* C18: under every interleaving of the worker's __recompute with
\* remove_data_item or computation_changed(..., None) on the main thread, no
\* set-data or merge into the live data source happens after the entry has
\* been marked invalid.
C18_NoStoreAfterInvalid ==
    \A store \in stores : store.valid

\* ------------------------------------------------------------------ two threads

\* Two threads call begin_data_item_transaction and end_data_item_transaction
\* on A, on which B and C depend. A call is a frame on the stack of its
\* thread; the statements under __transactions_lock are one step, and each
\* state hook and each call for a dependent is a step of its own.
Threads == {"t1", "t2"}
ThreadItem == "A"

\* dependents is the copy of the list the loop of the call runs over; comp and
\* source belong to a call of __handle_computation_changed_or_mutated
Frame(op, data_item) ==
    [ op |-> op, data_item |-> data_item, pc |-> "count", i |-> 1, dependents |-> << >>,
      comp |-> None, source |-> None ]

IdleThread == [stack |-> << >>, begins |-> 0, calls |-> 0, raised |-> None]

Top(thread) == thread.stack[Len(thread.stack)]
Pop(thread) == [thread EXCEPT !.stack = SubSeq(@, 1, Len(@) - 1)]
Goto(thread, pc) == [thread EXCEPT !.stack[Len(thread.stack)].pc = pc]

InitThreads ==
    /\ InitMigrationIdle
    /\ InitNodeIdle
    /\ threads = [t \in Threads |-> IdleThread]
    /\ Start(finish_read(
           NewDocument([d \in DataItems |->
                           CASE d = "B" -> "c1" [] d = "C" -> "c2" [] OTHER -> None],
                       [c \in Computations |->
                           CASE c = "c1" -> << "A" >> [] c = "c2" -> << "A" >>
                             [] OTHER -> << >>]),
           ItemOrder))

\* a step of a thread inside a call
ThreadStep(s, t, thread) ==
    /\ Commit([s EXCEPT !.raised = raised, !.events = events])
    /\ threads' = [threads EXCEPT ![t] = thread]
    /\ UNCHANGED << ops, last_call, user_begins, close_pc >>
    /\ UNCHANGED migvars
    /\ UNCHANGED nodevars

\* the thread calls begin_data_item_transaction(A)
CallBegin(t) ==
    /\ threads[t].stack = << >>
    /\ threads[t].raised = None
    /\ threads[t].calls < MaxThreadCalls
    /\ ThreadStep(St, t, [threads[t] EXCEPT !.stack = << Frame("begin", ThreadItem) >>,
                                           !.begins = @ + 1, !.calls = @ + 1])

\* the thread calls end_data_item_transaction(A) to match a begin of its own
CallEnd(t) ==
    /\ threads[t].stack = << >>
    /\ threads[t].raised = None
    /\ threads[t].begins > 0
    /\ ThreadStep(St, t, [threads[t] EXCEPT !.stack = << Frame("end", ThreadItem) >>,
                                           !.begins = @ - 1, !.calls = @ + 1])

\* `with self.__transactions_lock` of begin_data_item_transaction and the
\* test of the old count
BeginCount(t) ==
    /\ threads[t].stack # << >>
    /\ Top(threads[t]).op = "begin"
    /\ Top(threads[t]).pc = "count"
    /\ LET data_item == Top(threads[t]).data_item
           old_transaction_count == transactions[data_item]
       IN ThreadStep([St EXCEPT !.transactions[data_item] = old_transaction_count + 1], t,
                     IF old_transaction_count = 0
                     THEN Goto(threads[t], "enter") ELSE Pop(threads[t]))

\* data_item._enter_transaction_state()
BeginEnter(t) ==
    /\ threads[t].stack # << >>
    /\ Top(threads[t]).pc = "enter"
    /\ ThreadStep(enter_transaction_state(WorkerEntry, Top(threads[t]).data_item), t,
                  Goto(threads[t], "snapshot"))

\* `with self.__transactions_lock` of end_data_item_transaction, the
\* assertion and the test of the new count
EndCount(t) ==
    /\ threads[t].stack # << >>
    /\ Top(threads[t]).op = "end"
    /\ Top(threads[t]).pc = "count"
    /\ LET data_item == Top(threads[t]).data_item
           transaction_count == transactions[data_item] - 1
       IN IF transaction_count < 0
          THEN ThreadStep(St, t, [threads[t] EXCEPT !.stack = << >>,
                                                    !.raised = "AssertionError"])
          ELSE ThreadStep([St EXCEPT !.transactions[data_item] = transaction_count], t,
                          IF transaction_count = 0
                          THEN Goto(threads[t], "snapshot") ELSE Pop(threads[t]))

\* __dependent_data_items_lock is held by the thread that is inside
\* __handle_computation_changed_or_mutated
HoldsDependentsLock(t) ==
    \E k \in 1..Len(threads[t].stack) : threads[t].stack[k].op = "handle"

DependentsLockFree(t) == \A other \in Threads \ {t} : ~HoldsDependentsLock(other)

\* get_dependent_data_items(data_item) at the head of the loop: a copy of the
\* list, made under __dependent_data_items_lock
SnapshotDependents(t) ==
    /\ threads[t].stack # << >>
    /\ Top(threads[t]).pc = "snapshot"
    /\ DependentsLockFree(t)
    /\ ThreadStep(St, t,
          [threads[t] EXCEPT
              !.stack[Len(threads[t].stack)].pc = "dependents",
              !.stack[Len(threads[t].stack)].dependents =
                  get_dependent_data_items(St, Top(threads[t]).data_item)])

\* the loop over the copy: the call for the next dependent, or the end of the
\* loop
NextDependent(t) ==
    /\ threads[t].stack # << >>
    /\ Top(threads[t]).pc = "dependents"
    /\ LET top == Top(threads[t])
           dependents == top.dependents
       IN IF top.i <= Len(dependents)
          THEN ThreadStep(St, t,
                   [threads[t] EXCEPT
                       !.stack = Append([@ EXCEPT ![Len(@)].i = top.i + 1],
                                        Frame(top.op, dependents[top.i]))])
          ELSE ThreadStep(St, t,
                   IF top.op = "begin" THEN Pop(threads[t]) ELSE Goto(threads[t], "exit"))

\* data_item._exit_transaction_state()
EndExit(t) ==
    /\ threads[t].stack # << >>
    /\ Top(threads[t]).pc = "exit"
    /\ ThreadStep(exit_transaction_state(WorkerEntry, Top(threads[t]).data_item), t,
                  Pop(threads[t]))

NextThreads ==
    \/ \E t \in Threads : CallBegin(t)
    \/ \E t \in Threads : CallEnd(t)
    \/ \E t \in Threads : BeginCount(t)
    \/ \E t \in Threads : BeginEnter(t)
    \/ \E t \in Threads : EndCount(t)
    \/ \E t \in Threads : SnapshotDependents(t)
    \/ \E t \in Threads : NextDependent(t)
    \/ \E t \in Threads : EndExit(t)

SpecThreads == InitThreads /\ [][NextThreads]_vars

\* no call is in progress on either thread
NoCallInProgress == \A t \in Threads : threads[t].stack = << >>

\* C19: under every interleaving of balanced begin and end calls on the same
\* data item from two threads, whenever no call is in progress the item is in
\* transaction state if and only if its count is greater than 0.
C19_StateFollowsCount ==
    NoCallInProgress =>
        (InSet(in_transaction_state, ThreadItem) <=> transactions[ThreadItem] > 0)

\* ------------------------------------------------------------------ removal cascade

\* the members that remove_data_item(data_item) is to take out of a document
\* in the present state: data_item and, along the recorded dependents, every
\* data item whose recorded source list is exactly the one being removed
RECURSIVE SoleSourceChain(_)
SoleSourceChain(reached) ==
    LET more == { y \in DataItems : \E x \in reached :
                    /\ InSet(Range(dependent_data_items[x]), y)
                    /\ source_data_items[y] = << x >> }
    IN IF more \subseteq reached THEN reached ELSE SoleSourceChain(reached \cup more)

\* the data items reached from a set along the recorded dependents
RECURSIVE Dependents(_)
Dependents(reached) ==
    LET more == { y \in DataItems : \E x \in reached : InSet(Range(dependent_data_items[x]), y) }
    IN IF more \subseteq reached THEN reached ELSE Dependents(reached \cup more)

\* no data item depends on itself, directly or through others
Acyclic ==
    \A d \in DataItems :
        ~InSet(Dependents(Range(dependent_data_items[d])), d)

RemovesMember ==
    /\ ops' # ops
    /\ last_call'.op = "remove_data_item"
    /\ InSet(Range(data_items), last_call'.args[1])

\* C1: remove_data_item of a member takes out of the membership list that
\* member and the members on its chains of sole-source dependents, and no
\* other member (stated for documents whose recorded dependencies have no
\* cycle).
C1_RemovesSoleSourceChain ==
    [][(RemovesMember /\ Acyclic) =>
          Range(data_items') = Range(data_items) \ SoleSourceChain({last_call'.args[1]})]_vars

\* ------------------------------------------------------------------ contract violations

\* Insertion at every index, valid or not.
InitInsert == InitCascade

NextInsert ==
    \/ \E d \in DataItems : \E i \in -1..(Len(data_items) + 1) :
          Within(MaxOpsInsert) /\ Fresh(d) /\ InsertDataItem(i, d)
    \/ \E d \in DataItems : Within(MaxOpsInsert) /\ RemoveDataItem(d)

SpecInsert == InitInsert /\ [][NextInsert]_vars

InsertsAgainstContract ==
    /\ ops' # ops
    /\ last_call'.op = "insert_data_item"
    /\ \/ InSet(Range(data_items), last_call'.args[2])
       \/ ~InSet(0..Len(data_items), last_call'.args[1])

\* C8: insert_data_item of a member, or at an index outside 0..count, fails
\* an assertion and leaves the membership list, the listeners, the dependency
\* maps and the storage as they were.
C8_InsertAssertsBeforeChange ==
    [][InsertsAgainstContract =>
          /\ raised' = "AssertionError"
          /\ UNCHANGED << data_items, item_listeners, storage, dependent_data_items,
                          source_data_items, computation_dependency_data_items,
                          computation_changed_listeners >>]_vars

\* an insert of a data item that is a member, at a valid index, has failed
C8_Witness ==
    /\ last_call.op = "insert_data_item"
    /\ raised = "AssertionError"
    /\ InSet(Range(data_items), last_call.args[2])
    /\ InSet(0..(Len(data_items) - 1), last_call.args[1])
    /\ Len(data_items) >= 2

RemovesNonMember ==
    /\ ops' # ops
    /\ last_call'.op = "remove_data_item"
    /\ ~InSet(Range(data_items), last_call'.args[1])

\* C9: remove_data_item of a data item that is not a member ends in an
\* assertion failure and leaves the membership list as it was.
C9_RemoveNonMemberAsserts ==
    [][RemovesNonMember => (raised' = "AssertionError" /\ data_items' = data_items)]_vars

\* a remove of a data item that had been a member before, and has recorded
\* dependents, has failed
C9_Witness ==
    /\ last_call.op = "remove_data_item"
    /\ raised = "AssertionError"
    /\ ~InSet(Range(data_items), last_call.args[1])
    /\ InSet(closed, last_call.args[1])
    /\ data_items # << >>

\* ------------------------------------------------------------------ the queue

Pending(buffered_data_source) == EntriesFor(computation_pending_queue, buffered_data_source)

\* a main-thread call in which computation_changed runs for a data source
\* with a computation while an entry for the data source is pending
ComputationChangedWhilePending(buffered_data_source, comp) ==
    /\ ops' # ops
    /\ raised' = None
    /\ comp # None
    /\ Pending(buffered_data_source) # {}
    /\ \/ /\ last_call'.op = "set_computation"
          /\ last_call'.args = << buffered_data_source, comp >>
          /\ InSet(data_item_manager, buffered_data_source)
       \/ /\ last_call'.op = "insert_data_item"
          /\ last_call'.args[2] = buffered_data_source
          /\ computation[buffered_data_source] = comp

Coalesced(buffered_data_source, comp) ==
    /\ Cardinality(EntriesFor(computation_pending_queue', buffered_data_source)) = 1
    /\ Len(computation_pending_queue') = Len(computation_pending_queue)
    /\ computation_pending_queue'[First(EntriesFor(computation_pending_queue',
                                                   buffered_data_source))].computation = comp
    /\ ~InSet(Range(events'), << "dispatch_task2", buffered_data_source >>)
    /\ recompute_tasks' = recompute_tasks

\* the worker takes the head of the pending queue
Pops == worker.pc = "idle" /\ worker'.pc = "popped"

\* C2: computation_changed for a data source that has a pending entry leaves
\* one pending entry for it, holding the computation of this later call, and
\* dispatches no further task; there is one task for each pending entry, and
\* the task that pops the entry runs the computation the entry holds then.
C2_CoalescesToLatest ==
    [][/\ \A d \in DataItems : \A c \in Computations :
             ComputationChangedWhilePending(d, c) => Coalesced(d, c)
       /\ recompute_tasks' = Len(computation_pending_queue')
       /\ \A d \in DataItems : Cardinality(EntriesFor(computation_pending_queue', d)) <= 1
       /\ Pops => /\ worker'.item = Head(computation_pending_queue)
                  /\ EntriesFor(computation_pending_queue', worker'.item.buffered_data_source) = {}
                  /\ Cardinality(EntriesFor(computation_active_items',
                                            worker'.item.buffered_data_source)) = 1]_vars

\* the second of two set_computation calls for B has left one entry, with its
\* computation, and no second task
C2_Witness ==
    /\ last_call = [op |-> "set_computation", args |-> << "B", "c2" >>]
    /\ ~InSet(Range(events), << "dispatch_task2", "B" >>)
    /\ Cardinality(Pending("B")) = 1
    /\ computation_pending_queue[First(Pending("B"))].computation = "c2"
    /\ computation_pending_queue[First(Pending("B"))].valid
    /\ recompute_tasks = 1

QueueEntries ==
    Range(computation_pending_queue) \cup Range(computation_active_items) \cup {worker.item}

\* C3: an entry that was pending when remove_data_item ran for its data item
\* is invalid from then on, and the worker neither sets data nor merges the
\* clone for it.
C3_RemovedWhilePendingNotStored ==
    /\ \A entry \in QueueEntries : entry.pending_at_remove => ~entry.valid
    /\ \A store \in stores : ~store.pending_at_remove

\* the worker has taken such an entry through the check of valid
C3_Witness ==
    /\ worker.pc = "finishing"
    /\ worker.item.pending_at_remove
    /\ ~worker.evaluate_raised
    /\ worker.clone_modified
    /\ ~InSet(Range(data_items), worker.item.data_item)

\* nothing is queued or running
Drained ==
    /\ computation_pending_queue = << >>
    /\ computation_active_items = << >>
    /\ recompute_tasks = 0
    /\ worker.pc = "idle"

\* the last main-thread call was a successful edit of the expression of the
\* computation of the member data_item, whose leaf is bound to a data item
EditedLast(data_item) ==
    /\ InSet(Range(data_items), data_item)
    /\ computation[data_item] # None
    /\ last_call.op = "parse_expression"
    /\ last_call.args[1] = computation[data_item]
    /\ data_node[computation[data_item]] = last_call.args[2]
    /\ error_text[computation[data_item]] = None
    /\ InSet(DataItems, bound_items[computation[data_item]])

\* C6: once the queue has drained after an edit of the expression of a
\* member's computation, the data of the member is the value of the latest
\* expression.
C6_DrainedHoldsLatest ==
    \A d \in DataItems :
        (Drained /\ EditedLast(d)) =>
            data[d] = EvaluateNode(last_call.args[2], data[bound_items[computation[d]]])

\* the evaluation of the entry the worker holds raises
EvaluateRaises == worker.pc = "popped" /\ ~InSet({"popped", "evaluated"}, worker'.pc)

\* the worker finishes an entry whose evaluation raised
FinishesRaised == worker.pc = "finishing" /\ worker.evaluate_raised /\ worker'.pc # "finishing"

\* C7: when the evaluation of an entry raises, the task goes on to its end:
\* the error text of the computation is set, nothing is set on or merged into
\* the live data item, the entry leaves the active list, and the worker is
\* free for the tasks of the entries still pending.
C7_EvaluateErrorContained ==
    [][/\ EvaluateRaises =>
             /\ error_text'[worker.item.computation] = "Unable to compute data"
             /\ worker'.pc = "finishing"
             /\ worker'.raised = None
             /\ UNCHANGED << data, stores >>
       /\ FinishesRaised =>
             /\ worker' = IdleWorker
             /\ EntriesFor(computation_active_items', worker.item.buffered_data_source) = {}
             /\ UNCHANGED << data, stores, computation_pending_queue, recompute_tasks >>
             /\ recompute_tasks' = Len(computation_pending_queue')]_vars

\* the worker has finished an entry whose evaluation raised and has taken
\* the next one
C7_Witness ==
    /\ worker.pc = "popped"
    /\ \E c \in Computations :
          /\ error_text[c] = "Unable to compute data"
          /\ c # worker.item.computation
          /\ computation_active_items = << worker.item >>

\* ------------------------------------------------------------------ transactions

\* y depends on x and z on y, and nothing else depends on the three
Chain(x, y, z) ==
    /\ x # y /\ y # z /\ x # z
    /\ dependent_data_items[x] = << y >>
    /\ dependent_data_items[y] = << z >>
    /\ dependent_data_items[z] = << >>

Calls(op, data_item) ==
    /\ ops' # ops
    /\ last_call' = [op |-> op, args |-> << data_item >>]

\* C4: with B depending on A and C on B, begin_data_item_transaction(A) on
\* counts of 0 puts the three into transaction state with counts of 1, and the
\* one end_data_item_transaction(A) that matches it takes the three out, with
\* counts of 0.
C4_ChainTransaction ==
    [][\A x \in DataItems : \A y \in DataItems : \A z \in DataItems :
          Chain(x, y, z) =>
             /\ (/\ Calls("begin_data_item_transaction", x)
                 /\ \A d \in {x, y, z} : transactions[d] = 0)
                   => /\ \A d \in {x, y, z} : transactions'[d] = 1
                      /\ {x, y, z} \subseteq in_transaction_state'
             /\ (/\ Calls("end_data_item_transaction", x)
                 /\ \A d \in {x, y, z} : transactions[d] = 1)
                   => /\ \A d \in {x, y, z} : transactions'[d] = 0
                      /\ {x, y, z} \cap in_transaction_state' = {}]_vars

\* the matching end on A of the chain A, B, C has run
C4_Witness ==
    /\ Chain("A", "B", "C")
    /\ last_call = [op |-> "end_data_item_transaction", args |-> << "A" >>]
    /\ events = << << "_exit_transaction_state", "C" >>, << "_exit_transaction_state", "B" >>,
                   << "_exit_transaction_state", "A" >> >>
    /\ \A d \in DataItems : transactions[d] = 0

Count(seq, x) == Cardinality({ i \in 1..Len(seq) : seq[i] = x })

\* in one call the hook named enter ran on d once if the count of d left 0
\* and not otherwise, and the hook named exit once if the count came to 0
HooksFollow(count_before, count_after, enter, exit) ==
    \A d \in DataItems :
        /\ Count(events', << enter, d >>)
              = IF count_before[d] = 0 /\ count_after[d] > 0 THEN 1 ELSE 0
        /\ Count(events', << exit, d >>)
              = IF count_before[d] > 0 /\ count_after[d] = 0 THEN 1 ELSE 0

AllMatched(begins) == \A d \in DataItems : begins[d] = 0

\* C5: over dependencies without a cycle, in every call the enter hook of a
\* counter runs on a data item exactly when its count leaves 0 and the exit
\* hook exactly when it comes back to 0; a data item is in the state exactly
\* while its count is above 0; and when every begin has been matched by an
\* end all counts are 0.
C5_CountsBalance ==
    [][(ops' # ops /\ Acyclic) =>
          /\ raised' = None
          /\ HooksFollow(transactions, transactions',
                         "_enter_transaction_state", "_exit_transaction_state")
          /\ HooksFollow(live_data_items, live_data_items',
                         "_enter_live_state", "_exit_live_state")
          /\ in_transaction_state' = { d \in DataItems : transactions'[d] > 0 }
          /\ is_live' = { d \in DataItems : live_data_items'[d] > 0 }
          /\ AllMatched(user_begins'.transaction) => \A d \in DataItems : transactions'[d] = 0
          /\ AllMatched(user_begins'.live) => \A d \in DataItems : live_data_items'[d] = 0]_vars

\* D depends on B and on C, which depend on A; nested begins on A and their
\* ends have run, the last end taking D out of the live state
C5_Witness ==
    /\ Acyclic
    /\ source_data_items["D"] = << "B", "C" >>
    /\ source_data_items["B"] = << "A" >>
    /\ source_data_items["C"] = << "A" >>
    /\ last_call = [op |-> "end_data_item_live", args |-> << "A" >>]
    /\ Count(events, << "_exit_live_state", "D" >>) = 1
    /\ AllMatched(user_begins.live)
    /\ live_data_items["D"] = 0
    /\ ops = MaxOpsTransaction

\* ------------------------------------------------------------------ the live cascade

\* the hook ran on x in the call, before any hook of the same name on y
HookBefore(hook, x, y) ==
    \E i \in 1..Len(events') :
        /\ events'[i] = << hook, x >>
        /\ \A j \in 1..Len(events') : events'[j] = << hook, y >> => i < j

\* begin_data_item_live(x) enters the state and begins live on the current
\* dependents exactly when it takes the count of x from 0 to 1
BeginLiveCascades(x) ==
    (Calls("begin_data_item_live", x) /\ Acyclic) =>
        IF live_data_items[x] = 0
        THEN /\ Count(events', << "_enter_live_state", x >>) = 1
             /\ \A y \in Range(dependent_data_items[x]) :
                   live_data_items'[y] > live_data_items[y]
        ELSE /\ events' = << >>
             /\ \A y \in DataItems \ {x} : live_data_items'[y] = live_data_items[y]

\* end_data_item_live(x) that takes the count of x from 1 to 0 ends live on
\* the dependents first: each dependent that leaves the state leaves it
\* before x does
EndLiveDependentsFirst(x) ==
    (Calls("end_data_item_live", x) /\ Acyclic /\ live_data_items[x] = 1 /\ raised' = None) =>
        /\ Count(events', << "_exit_live_state", x >>) = 1
        /\ \A y \in Range(dependent_data_items[x]) :
              /\ live_data_items'[y] < live_data_items[y]
              /\ live_data_items'[y] = 0 => HookBefore("_exit_live_state", y, x)

\* C20: live state has the cascade shape of transaction state: an
\* end_data_item_live that takes the count of an item from 1 to 0 ends live on
\* its dependents first and only then does the item exit the live state, and
\* begin_data_item_live enters the state and begins live on all current
\* dependents exactly on count 0 to 1.
C20_LiveCascadeShape ==
    [][\A x \in DataItems : BeginLiveCascades(x) /\ EndLiveDependentsFirst(x)]_vars

\* ------------------------------------------------------------------ states along the edges

\* Dependencies that come and go while data items are in transaction or live:
\* B and C are built with computations over A, B and C, members come and go,
\* computations are set and cleared, and transactions and live begin and end
\* in between.
EdgeItems == {"A", "B", "C"}
EdgeVariables ==
    { [c \in Computations |-> CASE c = "c1" -> v1 [] c = "c2" -> v2 [] OTHER -> << >>] :
        v1 \in { << "A" >>, << "A", "C" >>, << "B" >>, << "A", "A" >> },
        v2 \in { << "A" >>, << "B" >>, << "A", "B" >> } }

InitEdges ==
    /\ InitMigrationIdle
    /\ InitNodeIdle
    /\ InitThreadsIdle
    /\ \E built \in EdgeVariables :
          InitBuilt([d \in DataItems |->
                        CASE d = "B" -> "c1" [] d = "C" -> "c2" [] OTHER -> None], built)

NextEdges ==
    \/ \E d \in EdgeItems : Within(MaxOpsEdges) /\ Fresh(d) /\ AppendDataItem(d)
    \/ \E d \in EdgeItems : Within(MaxOpsEdges) /\ InSet(Range(data_items), d) /\ RemoveDataItem(d)
    \/ \E d \in {"B", "C"} : \E c \in {"c1", "c2", None} :
          Within(MaxOpsEdges) /\ SetComputation(d, c)
    \/ \E d \in {"A", "B"} : Within(MaxOpsEdges) /\ BeginTransaction(d)
    \/ \E d \in {"A", "B"} : Within(MaxOpsEdges) /\ EndTransaction(d)
    \/ Within(MaxOpsEdges) /\ BeginLive("A")
    \/ Within(MaxOpsEdges) /\ EndLive("A")

SpecEdges == InitEdges /\ [][NextEdges]_vars


\* along every recorded edge the dependent is in the states its source is in
EdgeStatesFollow ==
    \A source \in DataItems : \A target \in Range(dependent_data_items[source]) :
        /\ InSet(in_transaction_state, source) => InSet(in_transaction_state, target)
        /\ InSet(is_live, source) => InSet(is_live, target)

\* ------------------------------------------------------------------ an edge added during begin

\* One thread begins and ends transactions on A while the other runs
\* __handle_computation_changed_or_mutated(B, source, c1), which adds the
\* edge from A to B; C depends on B from the start. The handler holds
\* __dependent_data_items_lock from its first statement to its last.
InitEdgeRace ==
    /\ InitMigrationIdle
    /\ InitNodeIdle
    /\ threads = [t \in Threads |-> IdleThread]
    /\ \E v1 \in { << "A" >>, << "A", "A" >>, << "A", "D" >> } : \E live \in BOOLEAN :
          LET read == finish_read(
                          NewDocument([d \in DataItems |->
                                          CASE d = "C" -> "c2" [] OTHER -> None],
                                      [c \in Computations |->
                                          CASE c = "c1" -> v1 [] c = "c2" -> << "B" >>
                                            [] OTHER -> << >>]),
                          ItemOrder)
          IN Start(IF live THEN [begin_data_item_live(read, "A") EXCEPT !.events = << >>]
                   ELSE read)

\* the thread enters the handler for a data item whose recorded source set is
\* empty, so that the loop over the old sources has nothing to remove
CallHandle(t, data_item, comp) ==
    /\ threads[t].stack = << >>
    /\ threads[t].raised = None
    /\ threads[t].calls = 0
    /\ DependentsLockFree(t)
    /\ computation_dependency_data_items[data_item] = {}
    /\ ThreadStep(St, t,
          [threads[t] EXCEPT
              !.stack = << [Frame("handle", data_item) EXCEPT !.pc = "variable", !.comp = comp] >>,
              !.calls = @ + 1])

\* the loop over computation.variables: the next specifier is resolved and,
\* when it names a member that is not in the source set yet, the source is
\* added to the set and __add_dependency appends to the two lists
HandleVariable(t) ==
    /\ threads[t].stack # << >>
    /\ Top(threads[t]).op = "handle"
    /\ Top(threads[t]).pc = "variable"
    /\ LET top == Top(threads[t])
           specifiers == variables[top.comp]
           k == Len(threads[t].stack)
       IN IF top.i > Len(specifiers) THEN ThreadStep(St, t, Pop(threads[t]))
          ELSE LET source_data_item == resolve_object_specifier(St, specifiers[top.i])
               IN IF source_data_item # None
                     /\ ~InSet(computation_dependency_data_items[top.data_item], source_data_item)
                  THEN ThreadStep(
                          [St EXCEPT
                             !.computation_dependency_data_items[top.data_item] =
                                 @ \cup {source_data_item},
                             !.dependent_data_items[source_data_item] = Append(@, top.data_item),
                             !.source_data_items[top.data_item] = Append(@, source_data_item)],
                          t,
                          [threads[t] EXCEPT !.stack[k].pc = "propagate",
                                             !.stack[k].source = source_data_item])
                  ELSE ThreadStep(St, t, [threads[t] EXCEPT !.stack[k].i = top.i + 1])

\* __add_dependency that does not look at the transaction state of the source
HandlePropagateNothing(t) ==
    /\ threads[t].stack # << >>
    /\ Top(threads[t]).pc = "propagate"
    /\ ThreadStep(St, t, Goto(threads[t], "propagate_live"))

\* __add_dependency: `if source_data_item.in_transaction_state` and the call
\* of begin_data_item_transaction(target_data_item)
HandlePropagate(t) ==
    /\ threads[t].stack # << >>
    /\ Top(threads[t]).pc = "propagate"
    /\ LET top == Top(threads[t])
           k == Len(threads[t].stack)
           next == [threads[t] EXCEPT !.stack[k].pc = "propagate_live"]
       IN ThreadStep(St, t,
             IF InSet(in_transaction_state, top.source)
             THEN [next EXCEPT !.stack = Append(@, Frame("begin", top.data_item))]
             ELSE next)

\* __add_dependency: `if source_data_item.is_live` and begin_data_item_live;
\* no thread but this one touches the live counts here
HandlePropagateLive(t) ==
    /\ threads[t].stack # << >>
    /\ Top(threads[t]).pc = "propagate_live"
    /\ LET top == Top(threads[t])
           k == Len(threads[t].stack)
       IN ThreadStep(IF InSet(is_live, top.source)
                     THEN begin_data_item_live(WorkerEntry, top.data_item) ELSE St,
                     t,
                     [threads[t] EXCEPT !.stack[k].pc = "variable", !.stack[k].i = top.i + 1])

NextEdgeRace ==
    \/ CallBegin("t1")
    \/ CallEnd("t1")
    \/ CallHandle("t2", "B", "c1")
    \/ \E t \in Threads : BeginCount(t)
    \/ \E t \in Threads : BeginEnter(t)
    \/ \E t \in Threads : EndCount(t)
    \/ \E t \in Threads : SnapshotDependents(t)
    \/ \E t \in Threads : NextDependent(t)
    \/ \E t \in Threads : EndExit(t)
    \/ \E t \in Threads : HandleVariable(t)
    \/ \E t \in Threads : HandlePropagate(t)
    \/ \E t \in Threads : HandlePropagateLive(t)

SpecEdgeRace == InitEdgeRace /\ [][NextEdgeRace]_vars

\* no operation is in progress: between the calls of the main thread when it
\* is the only one, and with every thread outside a call otherwise
NoOperationInProgress ==
    threads # << >> => \A t \in Threads : threads[t].stack = << >>

close_queue(s) ==
    [s EXCEPT !.computation_pending_queue = << >>,
              !.computation_active_items = << >>,
              !.worker = IF @.pc = "idle" THEN @ ELSE [@ EXCEPT !.item.valid = FALSE]]

\* the end of close: about_to_be_removed and close on every member
RECURSIVE close_data_items(_, _)
close_data_items(s, i) ==
    IF i > Len(s.data_items) THEN s
    ELSE close_data_items(
             Fire(Fire([data_item_removed(s, s.data_items[i])
                           EXCEPT !.closed = @ \cup {s.data_items[i]}],
                       << "about_to_be_removed", s.data_items[i] >>),
                  << "close", s.data_items[i] >>),
             i + 1)

\* a step of close on the main thread
CloseStep(s, pc) ==
    /\ Commit(s)
    /\ close_pc' = pc
    /\ last_call' = [op |-> "close", args |-> << >>]
    /\ UNCHANGED << ops, user_begins >>
    /\ UNCHANGED migvars
    /\ UNCHANGED nodevars
    /\ UNCHANGED threads

CloseQueue ==
    /\ close_pc = "open"
    /\ CloseStep(close_queue(Entry), "begun")

\* __thread_pool.close() and __computation_thread_pool.close(): the task that
\* is running runs to its end, and no task starts after that
ClosePools ==
    /\ close_pc = "begun"
    /\ worker.pc = "idle"
    /\ CloseStep(St, "pools_closed")

CloseDataItems ==
    /\ close_pc = "pools_closed"
    /\ CloseStep(close_data_items(St, 1), "closed")

PoolsRunning == InSet({"open", "begun"}, close_pc)

\* A document about to be closed: A, then B with a computation on A, then C
\* with a computation on B came into the document, the expressions parsed, so
\* that an entry for B and one for C are pending and a store into B is heard
\* by the computation of C.
ParsedDocument ==
    [NewDocument([d \in DataItems |-> CASE d = "B" -> "c1" [] d = "C" -> "c2" [] OTHER -> None],
                 [c \in Computations |->
                     CASE c = "c1" -> << "A" >> [] c = "c2" -> << "B" >> [] OTHER -> << >>])
        EXCEPT !.data_node = [c \in Computations |-> IF c = "c3" THEN None ELSE "-a"],
               !.original_expression = [c \in Computations |-> IF c = "c3" THEN None ELSE "-a"],
               !.needs_update = [c \in Computations |-> c # "c3"]]

InitClose ==
    /\ InitMigrationIdle
    /\ InitNodeIdle
    /\ InitThreadsIdle
    /\ Start([insert_data_item(
                 insert_data_item(insert_data_item(ParsedDocument, 0, "A"), 1, "B"), 2, "C")
             EXCEPT !.events = << >>])

NextClose ==
    \/ \E c \in {"c1", "c2"} : \E e \in Expressions :
          Within(MaxOpsClose) /\ close_pc = "open" /\ ParseExpressionCall(c, e)
    \/ PoolsRunning /\ RecomputePop
    \/ RecomputeEvaluate
    \/ RecomputeCheckValid
    \/ RecomputeSetData
    \/ RecomputeMergeFromClone
    \/ RecomputeFinish
    \/ CloseQueue
    \/ ClosePools
    \/ CloseDataItems

SpecClose == InitClose /\ [][NextClose]_vars

NoValidEntry(queue) == \A i \in 1..Len(queue) : ~queue[i].valid

\* C22: once close has begun no entry of the pending queue or of the active
\* set is valid, both pools are stopped before any data item is closed, and
\* no recompute sets data on or merges into a data item that has been closed.
C22_CloseStopsRecompute ==
    [][/\ close_pc' # "open" =>
             /\ NoValidEntry(computation_pending_queue')
             /\ NoValidEntry(computation_active_items')
       /\ closed' # closed => close_pc = "pools_closed" /\ worker.pc = "idle"
       /\ stores' # stores => ~InSet(closed, worker.item.data_item)]_vars

\* ------------------------------------------------------------------ order of the queue

DataSources(queue) == [i \in 1..Len(queue) |-> queue[i].buffered_data_source]

IsPrefix(short, long) ==
    /\ Len(short) <= Len(long)
    /\ \A i \in 1..Len(short) : short[i] = long[i]

\* the worker takes an entry to execute in this step
StartsExecuting == worker.pc = "idle" /\ worker'.pc = "popped"

\* C23: entries start executing in the order in which they were first
\* enqueued: the entry that starts is the oldest pending one, a new entry goes
\* behind the pending ones, and a change coalesced into a pending entry leaves
\* every entry where it was.
C23_FirstEnqueuedFirstStarted ==
    [][IF StartsExecuting
       THEN /\ worker'.item = Head(computation_pending_queue)
            /\ DataSources(computation_pending_queue') =
                   Tail(DataSources(computation_pending_queue))
       ELSE IsPrefix(DataSources(computation_pending_queue),
                     DataSources(computation_pending_queue'))]_vars

\* B's entry was pending ahead of C's, a change of c1 was coalesced into it,
\* and it is B's entry that started
C23_Witness ==
    /\ last_call = [op |-> "parse_expression", args |-> << "c1", "-a+1" >>]
    /\ worker.pc = "popped"
    /\ worker.item.buffered_data_source = "B"
    /\ DataSources(computation_pending_queue) = << "C" >>

\* ------------------------------------------------------------------ reconstruct

\* _operator_map: the text and the precedence of an operator
operator_map ==
    [function_id \in {"pow", "neg", "pos", "add", "sub", "mul", "div", "truediv",
                      "floordiv", "mod"} |->
        CASE function_id = "pow" -> << "**", 9 >>
          [] function_id = "neg" -> << "-", 8 >>
          [] function_id = "pos" -> << "+", 8 >>
          [] function_id = "add" -> << "+", 6 >>
          [] function_id = "sub" -> << "-", 6 >>
          [] function_id = "mul" -> << "*", 7 >>
          [] function_id = "div" -> << "/", 7 >>
          [] function_id = "truediv" -> << "/", 7 >>
          [] function_id = "floordiv" -> << "//", 7 >>
          [] OTHER -> << "%", 7 >>]

UnaryOperators == {"neg", "pos"}
BinaryOperators == {"add", "sub", "mul", "div", "floordiv", "mod", "pow"}

\* the variables of the computation: name -> the specifier it stands for
variable_map == [name \in {"a", "b", "c"} |->
                   Specifier("variable", CASE name = "a" -> 1 [] name = "b" -> 2 [] OTHER -> 3)]

\* a text is the sequence of its tokens; "({0})".format(text)
Parenthesized(text) == << "(" >> \o text \o << ")" >>

\* reconstruct of a variable node, of UnaryOperationDataNode and of
\* BinaryOperationDataNode, for the operators of _operator_map: the text and
\* its precedence
RECURSIVE reconstruct(_)
reconstruct(node) ==
    IF node.type = "variable"
    THEN << << CHOOSE name \in DOMAIN variable_map :
                   variable_map[name] = node.object_specifier >>, 10 >>
    ELSE LET inputs == [i \in 1..Len(node.inputs) |-> reconstruct(node.inputs[i])]
             operator_text == operator_map[node.function_id][1]
             precedence == operator_map[node.function_id][2]
         IN IF node.type = "unary"
            THEN LET operator_arg == IF precedence >= inputs[1][2]
                                     THEN Parenthesized(inputs[1][1]) ELSE inputs[1][1]
                 IN << << operator_text >> \o operator_arg, precedence >>
            ELSE LET operator_left == IF precedence > inputs[1][2]
                                      THEN Parenthesized(inputs[1][1]) ELSE inputs[1][1]
                     operator_right == IF precedence > inputs[2][2]
                                       THEN Parenthesized(inputs[2][1]) ELSE inputs[2][1]
                 IN << operator_left \o << operator_text >> \o operator_right, precedence >>

\* An expression as Python reads it: the operator and the operands it is
\* applied to; a name has no operands.
Expr(op, args) == [op |-> op, args |-> args]
SyntaxError == Expr("SyntaxError", << >>)
Parsed(expr, rest) == [expr |-> expr, rest |-> rest]

\* the expression a tree stands for
RECURSIVE ExprOf(_)
ExprOf(node) ==
    IF node.type = "variable" THEN Expr(reconstruct(node)[1][1], << >>)
    ELSE Expr(operator_map[node.function_id][1],
              [i \in 1..Len(node.inputs) |-> ExprOf(node.inputs[i])])

\* Python's grammar of expressions:
\*   arith_expr: term (('+'|'-') term)*
\*   term: factor (('*'|'/'|'%'|'//') factor)*
\*   factor: ('+'|'-') factor | power
\*   power: atom ['**' factor]
\*   atom: NAME | '(' arith_expr ')'
RECURSIVE arith_expr(_), arith_expr_more(_), term(_), term_more(_), factor(_), power(_), atom(_)
atom(tokens) ==
    IF tokens = << >> THEN Parsed(SyntaxError, << >>)
    ELSE IF Head(tokens) = "("
    THEN LET inner == arith_expr(Tail(tokens))
         IN IF inner.expr # SyntaxError /\ inner.rest # << >> /\ Head(inner.rest) = ")"
            THEN Parsed(inner.expr, Tail(inner.rest))
            ELSE Parsed(SyntaxError, << >>)
    ELSE IF Head(tokens) \in DOMAIN variable_map
    THEN Parsed(Expr(Head(tokens), << >>), Tail(tokens))
    ELSE Parsed(SyntaxError, << >>)

power(tokens) ==
    LET base == atom(tokens)
    IN IF base.expr # SyntaxError /\ base.rest # << >> /\ Head(base.rest) = "**"
       THEN LET exponent == factor(Tail(base.rest))
            IN IF exponent.expr = SyntaxError THEN exponent
               ELSE Parsed(Expr("**", << base.expr, exponent.expr >>), exponent.rest)
       ELSE base

factor(tokens) ==
    IF tokens # << >> /\ Head(tokens) \in {"+", "-"}
    THEN LET operand == factor(Tail(tokens))
         IN IF operand.expr = SyntaxError THEN operand
            ELSE Parsed(Expr(Head(tokens), << operand.expr >>), operand.rest)
    ELSE power(tokens)

term_more(left) ==
    IF left.expr # SyntaxError /\ left.rest # << >> /\ Head(left.rest) \in {"*", "/", "%", "//"}
    THEN LET right == factor(Tail(left.rest))
         IN IF right.expr = SyntaxError THEN right
            ELSE term_more(Parsed(Expr(Head(left.rest), << left.expr, right.expr >>),
                                  right.rest))
    ELSE left

term(tokens) == term_more(factor(tokens))

arith_expr_more(left) ==
    IF left.expr # SyntaxError /\ left.rest # << >> /\ Head(left.rest) \in {"+", "-"}
    THEN LET right == term(Tail(left.rest))
         IN IF right.expr = SyntaxError THEN right
            ELSE arith_expr_more(Parsed(Expr(Head(left.rest), << left.expr, right.expr >>),
                                        right.rest))
    ELSE left

arith_expr(tokens) == arith_expr_more(term(tokens))

\* the whole text as one expression
parse(tokens) ==
    LET parsed == arith_expr(tokens)
    IN IF parsed.rest = << >> THEN parsed.expr ELSE SyntaxError

\* the trees over the variables a, b, c and the operators of _operator_map
VariableNodes ==
    { SpecifiedDataNode("variable", 10 + variable_map[name].uuid, variable_map[name], None) :
        name \in DOMAIN variable_map }

RECURSIVE OperatorTrees(_)
OperatorTrees(depth) ==
    IF depth = 0 THEN VariableNodes
    ELSE LET inner == OperatorTrees(depth - 1)
         IN inner
            \cup { OperationDataNode("unary", 1, << a >>, op, {}) :
                     a \in inner, op \in UnaryOperators }
            \cup { OperationDataNode("binary", 1, << a, b >>, op, {}) :
                     a \in inner, b \in inner, op \in BinaryOperators }

InitReconstruct ==
    /\ InitDocument
    /\ InitMigrationIdle
    /\ InitThreadsIdle
    /\ built_node \in OperatorTrees(MaxDepth)
    /\ node_dict = None
    /\ read_node = None
    /\ rewritten_dict = None
    /\ node_pc = "built"
    /\ reconstructed = None
    /\ reparsed = None
    /\ binder = None

Reconstruct ==
    /\ node_pc = "built"
    /\ reconstructed' = reconstruct(built_node)
    /\ node_pc' = "reconstructed"
    /\ UNCHANGED << docvars, migvars, threads, built_node, node_dict, read_node,
                    rewritten_dict, binder, reparsed >>

Reparse ==
    /\ node_pc = "reconstructed"
    /\ reparsed' = parse(reconstructed[1])
    /\ node_pc' = "reparsed"
    /\ UNCHANGED << docvars, migvars, threads, built_node, node_dict, read_node,
                    rewritten_dict, binder, reconstructed >>

NextReconstruct ==
    \/ Reconstruct
    \/ Reparse

SpecReconstruct == InitReconstruct /\ [][NextReconstruct]_vars

\* C24: for every tree over the unary and binary operators the reconstructed
\* text, read with Python's precedence and associativity, is the expression
\* the tree stands for: the same operators over the same operands.
C24_ReconstructKeepsGrouping ==
    node_pc = "reparsed" => reparsed = ExprOf(built_node)

\* ------------------------------------------------------------------ bind and unbind

\* a dict with key set to value
DictSet(d, key, value) ==
    [k \in DOMAIN d \cup {key} |-> IF k = key THEN value ELSE d[k]]

\* a Computation that is not bound: no bound item was made, both dicts empty.
\* objects: every bound item made so far, with the node it was made for;
\* listeners: every subscription to a changed_event made so far.
\* context: the specifiers the enclosing context resolves.
Unbound(context) == [context |-> context, objects |-> << >>, listeners |-> << >>,
                     bound_items |-> << >>, bound_item_listeners |-> << >>]

\* DataNode.bind over the inputs and VariableDataNode.bind at a leaf: the
\* context makes a new bound item each time it resolves a specifier, and the
\* leaf puts it into bound_items under its own uuid
RECURSIVE DataNodeBind(_, _)
DataNodeBindInputs(inputs, b) ==
    IF Len(inputs) = 1 THEN DataNodeBind(inputs[1], b)
    ELSE DataNodeBind(inputs[2], DataNodeBind(inputs[1], b))
DataNodeBind(node, b) ==
    IF node.type = "variable"
    THEN IF node.object_specifier \in b.context
         THEN [b EXCEPT !.objects = Append(@, [node |-> node.uuid, closed |-> FALSE]),
                        !.bound_items = DictSet(@, node.uuid, Len(b.objects) + 1)]
         ELSE b
    ELSE DataNodeBindInputs(node.inputs, b)

\* the loop of Computation.bind over bound_items.items()
RECURSIVE ListenEach(_, _)
ListenEach(b, uuids) ==
    IF uuids = {} THEN b
    ELSE LET bound_item_uuid == CHOOSE u \in uuids : TRUE
         IN ListenEach(
                [b EXCEPT !.listeners = Append(@, [bound_item |-> b.bound_items[bound_item_uuid],
                                                   closed |-> FALSE]),
                          !.bound_item_listeners =
                              DictSet(@, bound_item_uuid, Len(b.listeners) + 1)],
                uuids \ {bound_item_uuid})

\* Computation.bind(context) with a data node
ComputationBind(b, node) ==
    IF DOMAIN b.bound_items = {}
    THEN LET bound == DataNodeBind(node, b)
         IN ListenEach(bound, DOMAIN bound.bound_items)
    ELSE b

\* the loop of Computation.unbind over the two dicts
RECURSIVE CloseEach(_, _)
CloseEach(b, uuids) ==
    IF uuids = {} THEN b
    ELSE LET uuid == CHOOSE u \in uuids : TRUE
         IN CloseEach([b EXCEPT !.objects[b.bound_items[uuid]].closed = TRUE,
                                !.listeners[b.bound_item_listeners[uuid]].closed = TRUE],
                      uuids \ {uuid})

\* Computation.unbind()
ComputationUnbind(b) ==
    [CloseEach(b, DOMAIN b.bound_items) EXCEPT !.bound_items = << >>,
                                               !.bound_item_listeners = << >>]

\* what the context resolves: every variable, or every variable but c
Resolving == { {variable_map[name] : name \in names} : names \in {{"a", "b", "c"}, {"a", "b"}} }

InitBind ==
    /\ InitDocument
    /\ InitMigrationIdle
    /\ InitThreadsIdle
    /\ built_node \in OperatorTrees(MaxDepth)
    /\ node_dict = None
    /\ read_node = None
    /\ rewritten_dict = None
    /\ node_pc = "built"
    /\ reconstructed = None
    /\ reparsed = None
    /\ binder \in { Unbound(context) : context \in Resolving }

BindStep(pc, b) ==
    /\ binder' = b
    /\ node_pc' = pc
    /\ UNCHANGED << docvars, migvars, threads, built_node, node_dict, read_node,
                    rewritten_dict, reconstructed, reparsed >>

BindTree ==
    /\ node_pc = "built"
    /\ BindStep("bound", ComputationBind(binder, built_node))

UnbindTree ==
    /\ node_pc = "bound"
    /\ BindStep("unbound", ComputationUnbind(binder))

NextBind ==
    \/ BindTree
    \/ UnbindTree

SpecBind == InitBind /\ [][NextBind]_vars

\* C25: after unbind every bound item the bind made has been closed and
\* every subscription to a changed_event the bind made is closed, also when a
\* leaf occurs more than once in the tree.
C25_UnbindClosesAll ==
    node_pc = "unbound" =>
        /\ \A i \in 1..Len(binder.objects) : binder.objects[i].closed
        /\ \A i \in 1..Len(binder.listeners) : binder.listeners[i].closed

\* ------------------------------------------------------------------ the error text of a parse

\* A document holding A and B, B with the computation c1 over A whose last
\* expression, xyz(a), did not parse; c2 has no variable and was never parsed.
FailedDocument ==
    [NewDocument([d \in DataItems |-> IF d = "B" THEN "c1" ELSE None],
                 [c \in Computations |-> IF c = "c1" THEN << "A" >> ELSE << >>])
        EXCEPT !.error_text["c1"] = ParseExpression("xyz(a)", << "A" >>)[2],
               !.original_expression["c1"] = "xyz(a)"]

InitParse ==
    /\ InitMigrationIdle
    /\ InitNodeIdle
    /\ InitThreadsIdle
    /\ Start([insert_data_item(insert_data_item(FailedDocument, 0, "A"), 1, "B")
             EXCEPT !.events = << >>])

NextParse ==
    \/ \E c \in {"c1", "c2"} : \E e \in Expressions :
          Within(MaxOpsParse) /\ ParseExpressionCall(c, e)
    \/ Within(MaxOpsParse) /\ AddVariable("c2", "A")
    \/ \E c \in {"c1", "c2", None} : Within(MaxOpsParse) /\ SetComputation("B", c)
    \/ RecomputePop
    \/ RecomputeEvaluate
    \/ RecomputeMerge
    \/ RecomputeFinish

SpecParse == InitParse /\ [][NextParse]_vars

\* the step is a call of parse_expression on comp with this text
Parses(comp, expression) ==
    /\ ops' = ops + 1
    /\ last_call' = [op |-> "parse_expression", args |-> << comp, expression >>]

Logged(e) == \E i \in 1..Len(events) : events[i] = e

\* where in the log of the last call the step or event e is, 0 when it is not
At(e) == IF Logged(e) THEN CHOOSE i \in 1..Len(events) : events[i] = e ELSE 0

\* the steps of remove_data_item(x) are in the log in their order, and what
\* the log has about any other data item between the first and the last of
\* them lies before about_to_be_removed and the deletion of x
RemovedInOrder(x) ==
    /\ Logged(<< "data_item_will_be_removed_event", x >>)
    /\ Logged(<< "data_item_deleted_event", x >>)
    /\ LET invalidated == At(<< "invalidate_queue_items", x >>)
           will_be_removed == At(<< "data_item_will_be_removed_event", x >>)
           groups == At(<< "remove_from_groups", x >>)
           about == At(<< "about_to_be_removed", x >>)
           deleted_from_list == At(<< "del", x >>)
           erased == At(<< "erase_data_item", x >>)
           removed == At(<< "data_item_removed_event", x >>)
           deleted == At(<< "data_item_deleted_event", x >>)
       IN /\ will_be_removed = invalidated + 1
          /\ groups = will_be_removed + 1
          /\ groups < about
          /\ deleted_from_list = about + 1
          /\ erased = deleted_from_list + 1
          /\ removed = erased + 1
          /\ removed < deleted
          /\ \A i \in invalidated..deleted : events[i][2] # x => groups < i /\ i < about
          /\ \A y \in Range(dependent_data_items[x]) :
                source_data_items[y] = << x >> /\ y # x =>
                   /\ Logged(<< "data_item_removed_event", y >>)
                   /\ At(<< "data_item_removed_event", y >>) < about

\* C27: in a remove_data_item(X) that returns, X's queue entries are made
\* invalid, then data_item_will_be_removed_event fires, then X leaves the
\* groups, then every cascaded dependent is removed completely, and only then
\* is X deleted from the list, erased from storage and data_item_removed_event
\* fired, data_item_deleted_event last. The same holds of every removal the
\* call cascaded into.
C27_RemoveOrder ==
    last_call.op = "remove_data_item" /\ raised = None =>
        /\ events[1] = << "invalidate_queue_items", last_call.args[1] >>
        /\ events[Len(events)] = << "data_item_deleted_event", last_call.args[1] >>
        /\ \A x \in DataItems :
              Logged(<< "invalidate_queue_items", x >>) => RemovedInOrder(x)

\* the removal of A took B, and with B its dependent C, before A left the list
C27_Witness ==
    /\ last_call = [op |-> "remove_data_item", args |-> << "A" >>]
    /\ raised = None
    /\ Logged(<< "data_item_will_be_removed_event", "A" >>)
    /\ At(<< "data_item_will_be_removed_event", "A" >>)
         < At(<< "data_item_will_be_removed_event", "B" >>)
    /\ At(<< "data_item_will_be_removed_event", "B" >>)
         < At(<< "data_item_will_be_removed_event", "C" >>)
    /\ At(<< "data_item_deleted_event", "C" >>) < At(<< "del", "B" >>)
    /\ At(<< "data_item_deleted_event", "B" >>) < At(<< "del", "A" >>)

\* ------------------------------------------------------------------ the end of a transaction

\* C28: an end_data_item_transaction that takes the count of x from 1 to 0
\* has ended the transaction of every dependent, and every dependent whose
\* count came to 0 has left the transaction state, before
\* _exit_transaction_state runs on x, which is the last thing the call does.
C28_DependentsEndFirst ==
    [][\A x \in DataItems :
          (Calls("end_data_item_transaction", x) /\ transactions[x] = 1 /\ raised' = None) =>
              /\ events'[Len(events')] = << "_exit_transaction_state", x >>
              /\ Count(events', << "_exit_transaction_state", x >>) = 1
              /\ \A y \in Range(dependent_data_items[x]) :
                    /\ transactions'[y] < transactions[y]
                    /\ transactions'[y] = 0 =>
                          /\ Count(events', << "_exit_transaction_state", y >>) = 1
                          /\ ~InSet(in_transaction_state', y)]_vars

\* B and C depend on A; the end on A took B out of the transaction state and
\* then A, and C, begun once more, is still in it
C28_Witness ==
    /\ last_call = [op |-> "end_data_item_transaction", args |-> << "A" >>]
    /\ raised = None
    /\ dependent_data_items["A"] = << "B", "C" >>
    /\ events = << << "_exit_transaction_state", "B" >>, << "_exit_transaction_state", "A" >> >>
    /\ transactions["C"] = 1
    /\ InSet(in_transaction_state, "C")

\* ------------------------------------------------------------------ the two dependency maps

\* C29: after any sequence of insertions, changes of computation and
\* removals the two maps are inverse, T being among the dependents of S as
\* often as S is among the sources of T, and that is at most once.
C29_MapsInverse ==
    \A source \in DataItems : \A target \in DataItems :
        /\ Count(dependent_data_items[source], target)
              = Count(source_data_items[target], source)
        /\ Count(dependent_data_items[source], target) <= 1

\* B, computed from A and C, stayed behind when A was removed, and both maps
\* still hold the pair
C29_Witness ==
    /\ last_call = [op |-> "remove_data_item", args |-> << "A" >>]
    /\ raised = None
    /\ source_data_items["B"] = << "A", "C" >>
    /\ dependent_data_items["A"] = << "B" >>
    /\ dependent_data_items["C"] = << "B" >>

\* ------------------------------------------------------------------ the recorded sources of an item

\* the step is a call in which __handle_computation_changed_or_mutated ran
\* for item with comp: set_computation on a data item the document listens
\* to, or the insertion of item, whose computation is comp
HandlerRan(item, comp) ==
    /\ ops' # ops
    /\ \/ /\ last_call' = [op |-> "set_computation", args |-> << item, comp >>]
          /\ InSet(item_listeners, item)
       \/ /\ last_call'.op = "insert_data_item"
          /\ last_call'.args[2] = item
          /\ ~InSet(Range(data_items), item)
          /\ InSet(Range(data_items'), item)
          /\ comp = computation[item]

\* the members the variables of comp resolve to
ResolvedMembers(comp) ==
    IF comp = None THEN {}
    ELSE { uuid \in Range(variables'[comp]) : InSet(Range(data_items'), uuid) }

\* C30: the handler leaves as the recorded sources of the item exactly the
\* members that the variables of the computation resolve to, each once, none
\* when there is no computation or nothing resolves, and it leaves the
\* recorded sources of every other item as they were.
C30_HandlerRecordsSources ==
    [][\A item \in DataItems : \A comp \in Computations \cup {None} :
          HandlerRan(item, comp) =>
              /\ computation_dependency_data_items'[item] = ResolvedMembers(comp)
              /\ Range(source_data_items'[item]) = ResolvedMembers(comp)
              /\ Len(source_data_items'[item]) = Cardinality(ResolvedMembers(comp))
              /\ \A other \in DataItems \ {item} :
                    /\ computation_dependency_data_items'[other]
                          = computation_dependency_data_items[other]
                    /\ source_data_items'[other] = source_data_items[other]]_vars

\* B, computed from A, was given the computation over A and B in its place
C30_Witness ==
    /\ last_call = [op |-> "set_computation", args |-> << "B", "c2" >>]
    /\ variables["c2"] = << "A", "B" >>
    /\ source_data_items["B"] = << "A", "B" >>
    /\ computation_dependency_data_items["B"] = {"A", "B"}
    /\ dependent_data_items["A"] = << "B" >>

\* ------------------------------------------------------------------ variables and recorded sources

\* C31: for every member B whose computation has a variable that names the
\* member A, A is among the recorded sources of B and B among the recorded
\* dependents of A, in whatever order the two came into the document.
C31_VariablesRecorded ==
    \A b \in Range(data_items) :
        computation[b] # None =>
            \A a \in Range(variables[computation[b]]) :
                InSet(Range(data_items), a) =>
                    /\ InSet(Range(source_data_items[b]), a)
                    /\ InSet(Range(dependent_data_items[a]), b)

\* C32: the recorded dependencies have no cycle, and no data item is
\* recorded as its own source.
C32_NoCycle ==
    /\ \A d \in DataItems : ~InSet(Range(source_data_items[d]), d)
    /\ Acyclic

\* ------------------------------------------------------------------ the life of a data item

\* C33: a data item that remove_data_item has removed and closed is never
\* a member again.
C33_DetachedIsTerminal ==
    \A d \in closed : ~InSet(Range(data_items), d)

\* C34: a pending entry that computation_changed(item, S, None) made invalid
\* and that a later computation_changed(item, S, C) took over for the
\* computation C is valid again: every pending entry that holds the current
\* computation of a member data source, and was not pending when the data
\* source was removed, is valid, so the worker merges the result of C.
C34_CoalescedEntryRevalidated ==
    \A i \in 1..Len(computation_pending_queue) :
        LET entry == computation_pending_queue[i]
        IN (/\ InSet(data_item_manager, entry.buffered_data_source)
            /\ computation[entry.buffered_data_source] = entry.computation
            /\ ~entry.pending_at_remove) => entry.valid

\* ------------------------------------------------------------------ a change during evaluate

\* main-thread changes of the data of an input in one behaviour
MaxOpsEvaluate == 3

\* the values the main thread stores into the input
InputValues == {1, 2}

\* Computation.evaluate up to the return of data_node.evaluate: the bound
\* items have been read and the result computed; needs_update is as it was
recompute_evaluate_begin(s, outcome) ==
    LET comp == s.worker.item.computation
        done == recompute_evaluate(s, outcome)
    IN IF s.needs_update[comp] /\ done.worker.pc = "evaluated"
       THEN [done EXCEPT !.needs_update[comp] = TRUE, !.worker.pc = "evaluating"]
       ELSE done

\* the last statement of Computation.evaluate: self.needs_update = False
recompute_evaluate_end(s) ==
    [s EXCEPT !.needs_update[s.worker.item.computation] = FALSE,
              !.worker.pc = "evaluated"]

\* the main thread stores new data into a data item of the document
SetDataCall(data_item, value) ==
    /\ data[data_item] # value
    /\ Call("set_data", << data_item, value >>,
            set_data_and_metadata(Entry, data_item, value), user_begins)

RecomputeEvaluateBegin ==
    /\ worker.pc = "popped"
    /\ \E outcome \in {"ok", "raise"} :
          WorkerStep(recompute_evaluate_begin(WorkerEntry, outcome))

RecomputeEvaluateEnd ==
    /\ worker.pc = "evaluating"
    /\ WorkerStep(recompute_evaluate_end(WorkerEntry))

\* A, B and C are members; B computes -a from A and C computes -a from B
InitEvaluate == InitClose

NextEvaluate ==
    \/ \E v \in InputValues : Within(MaxOpsEvaluate) /\ SetDataCall("A", v)
    \/ RecomputePop
    \/ RecomputeEvaluateBegin
    \/ RecomputeEvaluateEnd
    \/ RecomputeMerge
    \/ RecomputeFinish

SpecEvaluate == InitEvaluate /\ [][NextEvaluate]_vars

\* C35: a change of a bound input that fires while the worker evaluates the
\* computation is not lost: once the queue has drained, a member whose
\* computation has a result and has needs_update false holds the value of
\* the computation over the present data of its input.
C35_ChangeDuringEvaluateNotLost ==
    \A d \in Range(data_items) :
        (/\ Drained
         /\ computation[d] # None
         /\ HasResult(St, computation[d])
         /\ ~needs_update[computation[d]]) =>
            data[d] = EvaluateComputation(St, computation[d])

\* ------------------------------------------------------------------ data item references

\* main-thread calls in one behaviour
MaxOpsReferences == 4

ReferenceItems == {"A", "B"}

SetupChannel(key, data_item) ==
    Call("setup_channel", << key, data_item >>, setup_channel(Entry, key, data_item), user_begins)

\* get_data_item_reference(key).data_item = value
SetReferenceDataItem(key, value) ==
    Call("set_reference_data_item", << key, value >>,
         set_reference_data_item(get_data_item_reference(Entry, key), key, value), user_begins)

InitReferences == InitQueue

NextReferences ==
    \/ \E d \in ReferenceItems : Within(MaxOpsReferences) /\ Fresh(d) /\ AppendDataItem(d)
    \/ \E d \in ReferenceItems : Within(MaxOpsReferences) /\ RemoveDataItem(d)
    \/ \E k \in ReferenceKeys : \E d \in ReferenceItems :
          Within(MaxOpsReferences) /\ SetupChannel(k, d)
    \/ \E k \in ReferenceKeys : \E v \in ReferenceItems \cup {None} :
          Within(MaxOpsReferences) /\ SetReferenceDataItem(k, v)

SpecReferences == InitReferences /\ [][NextReferences]_vars

\* C36: the persistent property data_item_references maps a key to a uuid
\* exactly for the references whose current data item is not None, and the
\* uuid is that of the current data item of the reference.
C36_PersistedMatchesSlots ==
    \A k \in ReferenceKeys :
        IF InSet(DataItems, data_item_references[k])
        THEN data_item_references_dict[k] = data_item_references[k]
        ELSE data_item_references_dict[k] = NoKey

\* C37: no __recompute task ends in an exception of its own bookkeeping: a
\* task that starts finds an entry in the pending queue, and the entry it
\* removes from the active list at its end is in the active list.
C37_RecomputeBookkeepingSafe ==
    /\ worker.raised = None
    /\ recompute_tasks <= Len(computation_pending_queue)

\* C38: remove_data_item of a data item that is not a member changes no
\* state before it fails: the queue entries are as they were, no
\* data_item_will_be_removed_event fires and no data item leaves the
\* membership list.
C38_NonMemberRemoveChangesNothing ==
    [][RemovesNonMember =>
          /\ computation_pending_queue' = computation_pending_queue
          /\ computation_active_items' = computation_active_items
          /\ \A d \in DataItems :
                ~InSet(Range(events'), << "data_item_will_be_removed_event", d >>)
          /\ data_items' = data_items]_vars

\* C39: after remove_data_item the removed data item is in no source list
\* and in no dependent list held for a remaining member: the dependency
\* maps relate members only.
C39_MapsRelateMembers ==
    \A d \in Range(data_items) :
        /\ \A x \in Range(source_data_items[d]) : InSet(closed, x) => InSet(Range(data_items), x)
        /\ \A x \in Range(dependent_data_items[d]) : InSet(closed, x) => InSet(Range(data_items), x)

\* C40: remove_data_item, begin_data_item_transaction and
\* end_data_item_transaction, begin_data_item_live and end_data_item_live
\* terminate over every recorded dependency graph, cycles included: no call
\* recurses without end.
C40_CallsTerminate == raised # "RecursionError"

====
